---------------------------- MODULE Spec2Model ----------------------------
(***************************************************************************)
(* Model of the Figma -> Obsidian comment sync plugin (src/main.ts) and of *)
(* its stand-alone coordinate detector                                     *)
(* (src/coordinate-based-frame-detection.js).                              *)
(*                                                                         *)
(* JavaScript objects are records whose optional properties are fields     *)
(* that may be missing from the record's DOMAIN; null is the record Null.  *)
(***************************************************************************)
EXTENDS Integers, Sequences, FiniteSets, TLC

VARIABLES
  arg,         \* the argument record of a direct call of a pure helper
  ret,         \* what that call returned
  cache,       \* FrameInfoFetcher.cache : fileKey -> FrameCache (or absent)
  now,         \* Date.now(), in milliseconds
  ticks,       \* how many times the clock has advanced
  call,        \* the getFrameInfo invocation in flight, or the last one returned
  fetchCount,  \* how many GET /v1/files/{fileKey} requests have been issued
  clears,      \* how many times clearCache() has run
  pass,        \* the syncAllFiles / saveCommentsToSingleFile invocation in flight
  vault,       \* the documents written to the vault, by path
  plugin,      \* settings.fetchFrameInfo, whether frameInfoFetcher exists, runtimeData.lastSync
  settings,    \* the plugin's settings object
  data,        \* the blob of data.json, as saveData last wrote it
  syncIntervalId, \* the plugin's field: the id of its periodic timer, or null
  timers,      \* the window's active intervals: timer id -> period in milliseconds
  running      \* the syncAllFiles invocations that have not returned

vars == <<arg, ret, cache, now, ticks, call, fetchCount, clears, pass, vault, plugin,
          settings, data, syncIntervalId, timers, running>>

\* the state only the plugin's lifecycle and its settings tab change
hostVars == <<settings, data, syncIntervalId, timers, running>>

-----------------------------------------------------------------------------
(* Values *)

Null == [null |-> TRUE]

Has(r, f) == f \in DOMAIN r

\* JavaScript truthiness of a string.
Truthy(s) == s # ""

\* a call that has not been made
NotCalled == [notCalled |-> TRUE]
\* a key a JavaScript object does not have
Absent == [absent |-> TRUE]
\* no invocation in flight
Idle == [pc |-> "idle"]

\* the keys of the files the plugin is configured with
FileKeys == {"K1", "K2"}

-----------------------------------------------------------------------------
(* Bounds of the model *)

\* nodes below the document root in a generated structure searched by id
MaxNodes == 4
\* nodes below the document root in a generated structure searched by point
MaxBoxNodes == 3
\* clock advances in one behaviour
MaxTicks == 2
\* structure requests in one behaviour
MaxFetches == 2

-----------------------------------------------------------------------------
(* Document structures (the JSON of GET /v1/files/{key}) *)

ContainerKinds == {"FRAME", "COMPONENT", "INSTANCE"}
Kinds == ContainerKinds \cup {"GROUP"}

NodeId(i) == IF i = 0 THEN "0:0" ELSE IF i = 1 THEN "0:1" ELSE "1:" \o ToString(i)
NodeName(i) == IF i = 0 THEN "Document" ELSE "N" \o ToString(i)

Box(x, y, w, h) == [x |-> x, y |-> y, width |-> w, height |-> h]

\* A node's attributes in a generated structure: its type and, optionally,
\* its absoluteBoundingBox.
PlainAttrs == {[type |-> k] : k \in Kinds}
BoxAttrs ==
  {[type |-> "FRAME", absoluteBoundingBox |-> b] :
      b \in {Box(0, 0, 10, 10), Box(0, 0, 10, 5), Box(0, 0, 5, 10),
             Box(5, 5, 0, 0), Box(20, 20, 5, 5)}}
  \cup {[type |-> "FRAME"],
        [type |-> "COMPONENT", absoluteBoundingBox |-> Box(0, 0, 10, 5)],
        [type |-> "INSTANCE", absoluteBoundingBox |-> Box(5, 0, 5, 10)],
        [type |-> "GROUP", absoluteBoundingBox |-> Box(4, 4, 2, 2)]}

\* parent[i] < i : every forest of n nodes hanging below node 0, the document
ParentVectors(n) == {p \in [1..n -> 0..(n - 1)] : \A i \in 1..n : p[i] < i}

RECURSIVE SortedSeq(_)
SortedSeq(S) ==
  IF S = {} THEN <<>>
  ELSE LET m == CHOOSE a \in S : \A b \in S : a <= b
       IN <<m>> \o SortedSeq(S \ {m})

RECURSIVE BuildNode(_, _, _, _)
BuildNode(i, n, parent, attrs) ==
  LET kids == SortedSeq({j \in 1..n : parent[j] = i})
      base == [id |-> NodeId(i), name |-> NodeName(i)]
      own  == IF i = 0 THEN [type |-> "DOCUMENT"]
              ELSE IF parent[i] = 0 THEN [type |-> "CANVAS"]
              ELSE attrs[i]
      sub  == IF kids = <<>> THEN <<>>
              ELSE [k \in 1..Len(kids) |-> BuildNode(kids[k], n, parent, attrs)]
      flds == DOMAIN base \cup DOMAIN own \cup (IF kids = <<>> THEN {} ELSE {"children"})
  IN [f \in flds |->
        IF f = "children" THEN sub
        ELSE IF f \in DOMAIN own THEN own[f] ELSE base[f]]

FileData(n, parent, attrs) == [name |-> "file", document |-> BuildNode(0, n, parent, attrs)]

\* Nodes directly below the document are pages, whatever attrs gives them.
AttrVectors(n, p, AttrSet) ==
  {a \in [1..n -> AttrSet] :
      \A i \in 1..n : p[i] = 0 => a[i] = CHOOSE d \in AttrSet : TRUE}

-----------------------------------------------------------------------------
(* FrameInfoFetcher: the pure helpers *)

isFrameNode(node) ==
  Has(node, "type") /\ node.type \in {"FRAME", "COMPONENT", "INSTANCE"}

\* isPointInBounds with the right and bottom edges excluded
isPointInBoundsHalfOpen(x, y, bounds) ==
  /\ {"x", "y", "width", "height"} \subseteq DOMAIN bounds
  /\ x >= bounds.x
  /\ x < bounds.x + bounds.width
  /\ y >= bounds.y
  /\ y < bounds.y + bounds.height

\* A comparison with a missing (undefined) operand is false in JavaScript.
isPointInBounds(x, y, bounds) ==
  /\ {"x", "y", "width", "height"} \subseteq DOMAIN bounds
  /\ x >= bounds.x
  /\ x <= bounds.x + bounds.width
  /\ y >= bounds.y
  /\ y <= bounds.y + bounds.height

Children(node) == IF Has(node, "children") THEN node.children ELSE <<>>

\* traverseNodes visiting the children first
RECURSIVE traverseNodesPostOrder(_, _)
RECURSIVE traverseChildrenPostOrder(_, _, _)
traverseNodesPostOrder(node, path) ==
  LET currentPath == Append(path, node)
  IN traverseChildrenPostOrder(Children(node), 1, currentPath)
       \o <<[node |-> node, path |-> currentPath]>>
traverseChildrenPostOrder(children, i, currentPath) ==
  IF i > Len(children) THEN <<>>
  ELSE traverseNodesPostOrder(children[i], currentPath)
         \o traverseChildrenPostOrder(children, i + 1, currentPath)

\* The calls of the callback, in order: <<[node, path], ...>>
RECURSIVE traverseNodes(_, _)
RECURSIVE traverseChildren(_, _, _)
traverseNodes(node, path) ==
  LET currentPath == Append(path, node)
  IN <<[node |-> node, path |-> currentPath]>>
       \o traverseChildren(Children(node), 1, currentPath)
traverseChildren(children, i, currentPath) ==
  IF i > Len(children) THEN <<>>
  ELSE traverseNodes(children[i], currentPath)
         \o traverseChildren(children, i + 1, currentPath)

RECURSIVE Join(_, _)
Join(strs, sep) ==
  IF strs = <<>> THEN ""
  ELSE IF Len(strs) = 1 THEN strs[1]
  ELSE strs[1] \o sep \o Join(Tail(strs), sep)

Names(nodes) == [k \in 1..Len(nodes) |-> nodes[k].name]

\* Array.prototype.findIndex: 0-based, -1 when no element satisfies
RECURSIVE FindIndexFrom(_, _, _)
FindIndexFrom(seq, k, type) ==
  IF k > Len(seq) THEN -1
  ELSE IF Has(seq[k], "type") /\ seq[k].type = type THEN k - 1
  ELSE FindIndexFrom(seq, k + 1, type)

\* Array.prototype.slice(from)
Slice(seq, from) == SubSeq(seq, from + 1, Len(seq))

buildFrameInfoFromPath(node, path) ==
  LET pageIndex == FindIndexFrom(path, 1, "CANVAS")
      pageName  == IF pageIndex >= 0 THEN path[pageIndex + 1].name ELSE "Unknown Page"
      framePathNodes == Slice(path, pageIndex + 1)
      fullPath  == Join(Names(framePathNodes), " > ")
  IN [nodeId    |-> node.id,
      frameName |-> node.name,
      pageName  |-> pageName,
      fullPath  |-> IF fullPath # "" THEN fullPath ELSE node.name]

\* A score is the exact quotient num/den; den = 0 is JavaScript's Infinity.
Score(num, den) == [num |-> num, den |-> den]
\* score >= bestScore written for score > bestScore
ScoreGE(a, b) ==
  IF a.den = 0 THEN TRUE
  ELSE IF b.den = 0 THEN FALSE
  ELSE a.num * b.den >= b.num * a.den
ScoreGT(a, b) ==
  IF a.den = 0 THEN b.den # 0
  ELSE IF b.den = 0 THEN FALSE
  ELSE a.num * b.den > b.num * a.den

\* The traversal callback of findFrameAtCoordinates, folded over the visits.
RECURSIVE BestMatch(_, _, _, _, _)
BestMatch(visits, k, x, y, best) ==
  IF k > Len(visits) THEN best
  ELSE
    LET node == visits[k].node
        hit  == /\ isFrameNode(node)
                /\ Has(node, "absoluteBoundingBox")
                /\ isPointInBounds(x, y, node.absoluteBoundingBox)
        bounds == node.absoluteBoundingBox
        score  == Score(1000000, bounds.width * bounds.height)
    IN IF hit /\ ScoreGT(score, best.bestScore)
       THEN BestMatch(visits, k + 1, x, y,
              [bestScore |-> score, bestMatchNode |-> node, bestMatchPath |-> visits[k].path])
       ELSE BestMatch(visits, k + 1, x, y, best)

\* reading a property of undefined
Threw == [threw |-> "TypeError"]

findFrameAtCoordinates(x, y, fileData) ==
  IF ~Has(fileData, "document") THEN Threw
  ELSE
    LET best == BestMatch(traverseNodes(fileData.document, <<>>), 1, x, y,
                  [bestScore |-> Score(-1, 1), bestMatchNode |-> Null, bestMatchPath |-> <<>>])
    IN IF best.bestMatchNode # Null
       THEN buildFrameInfoFromPath(best.bestMatchNode, best.bestMatchPath)
       ELSE Null

RECURSIVE findNode(_, _)
findNode(node, nodeId) ==
  \/ node.id = nodeId
  \/ \E k \in 1..Len(Children(node)) : findNode(Children(node)[k], nodeId)

\* The page loop of findFrameInfo: [frameFound, pageName, path] after the loop.
\* Only path.unshift(page) ever writes to path.
RECURSIVE SearchPages(_, _, _, _)
SearchPages(pages, k, nodeId, pageName) ==
  IF k > Len(pages) THEN [frameFound |-> FALSE, pageName |-> pageName, path |-> <<>>]
  ELSE IF Has(pages[k], "type") /\ pages[k].type = "CANVAS"
    THEN IF findNode(pages[k], nodeId)
         THEN [frameFound |-> TRUE, pageName |-> pages[k].name, path |-> <<pages[k]>>]
         ELSE SearchPages(pages, k + 1, nodeId, pages[k].name)
    ELSE SearchPages(pages, k + 1, nodeId, pageName)

findFrameInfo(nodeId, fileData) ==
  LET found ==
        IF Has(fileData, "document") /\ Has(fileData.document, "children")
        THEN SearchPages(fileData.document.children, 1, nodeId, "")
        ELSE [frameFound |-> FALSE, pageName |-> "", path |-> <<>>]
      path   == found.path
      frames == SelectSeq(path, isFrameNode)
      frameName == IF Len(frames) > 0 THEN frames[Len(frames)].name ELSE "Root"
      fullPath  == Join(Names(Slice(path, 1)), " > ")
  IN IF ~found.frameFound THEN Null
     ELSE [nodeId    |-> nodeId,
           frameName |-> frameName,
           pageName  |-> found.pageName,
           fullPath  |-> IF fullPath # "" THEN fullPath ELSE frameName]

-----------------------------------------------------------------------------
(* CoordinateBasedFrameDetector: the pure helpers of the stand-alone file *)

RECURSIVE DetectorBestMatch(_, _, _, _, _)
DetectorBestMatch(visits, k, x, y, best) ==
  IF k > Len(visits) THEN best
  ELSE
    LET node == visits[k].node
        hit  == /\ isFrameNode(node)
                /\ Has(node, "absoluteBoundingBox")
                /\ isPointInBounds(x, y, node.absoluteBoundingBox)
        bounds == node.absoluteBoundingBox
        area   == bounds.width * bounds.height
        score  == Score(1, area)
    IN IF hit /\ ScoreGT(score, best.bestScore)
       THEN DetectorBestMatch(visits, k + 1, x, y,
              [bestScore |-> score,
               bestMatch |-> [node |-> node, path |-> visits[k].path,
                              bounds |-> bounds, area |-> area]])
       ELSE DetectorBestMatch(visits, k + 1, x, y, best)

\* buildFrameInfo with the page kept at the head of the path
buildFrameInfoFromPage(node, path) ==
  LET pageIndex == FindIndexFrom(path, 1, "CANVAS")
      pageName  == IF pageIndex >= 0 THEN path[pageIndex + 1].name ELSE "Unknown Page"
      fullPath  == Join(Names(Slice(path, IF pageIndex >= 0 THEN pageIndex ELSE 0)), " > ")
  IN [nodeId      |-> node.id,
      frameName   |-> node.name,
      pageName    |-> pageName,
      fullPath    |-> IF fullPath # "" THEN fullPath ELSE node.name,
      coordinates |-> IF Has(node, "absoluteBoundingBox")
                      THEN node.absoluteBoundingBox ELSE Null]

\* path.indexOf(page) is -1 when page is undefined
buildFrameInfo(node, path) ==
  LET pageIndex == FindIndexFrom(path, 1, "CANVAS")
      pageName  == IF pageIndex >= 0 THEN path[pageIndex + 1].name ELSE "Unknown Page"
      framePathNodes == Slice(path, pageIndex + 1)
      fullPath  == Join(Names(framePathNodes), " > ")
  IN [nodeId      |-> node.id,
      frameName   |-> node.name,
      pageName    |-> pageName,
      fullPath    |-> IF fullPath # "" THEN fullPath ELSE node.name,
      coordinates |-> IF Has(node, "absoluteBoundingBox")
                      THEN node.absoluteBoundingBox ELSE Null]

\* findFrameAtCoordinates of the detector, after its structure is at hand
DetectorFindFrameAtCoordinates(x, y, fileStructure) ==
  IF ~Has(fileStructure, "document") THEN Threw
  ELSE
    LET best == DetectorBestMatch(traverseNodes(fileStructure.document, <<>>), 1, x, y,
                  [bestScore |-> Score(-1, 1), bestMatch |-> Null])
    IN IF best.bestMatch # Null
       THEN buildFrameInfo(best.bestMatch.node, best.bestMatch.path)
       ELSE Null

-----------------------------------------------------------------------------
(* The settings, the token and the blob saveSettings writes *)

\* {...r, ...more} and r with the fields of a set deleted
With(r, more) == [f \in DOMAIN r \cup DOMAIN more |-> IF f \in DOMAIN more THEN more[f] ELSE r[f]]
Without(r, fields) == [f \in DOMAIN r \ fields |-> r[f]]

\* the files the user adds, in the order they are added
FigmaFiles ==
  <<[key |-> "K1", name |-> "Design", enabled |-> TRUE],
    [key |-> "K2", name |-> "Icons", enabled |-> TRUE]>>

\* Strings are sequences of character codes; '' is <<>>.
\* TokenManager.SECRET_KEY = 'figma-obsidian-sync-2025'
SECRET_KEY ==
  <<102, 105, 103, 109, 97, 45, 111, 98, 115, 105, 100, 105, 97, 110, 45,
    115, 121, 110, 99, 45, 50, 48, 50, 53>>

\* a ^ b
RECURSIVE BitXor(_, _)
BitXor(a, b) ==
  IF a = 0 THEN b
  ELSE IF b = 0 THEN a
  ELSE ((a + b) % 2) + 2 * BitXor(a \div 2, b \div 2)

\* text.charCodeAt(i) ^ SECRET_KEY.charCodeAt(i % SECRET_KEY.length), for all i
XorWithKey(text) ==
  [i \in 1..Len(text) |-> BitXor(text[i], SECRET_KEY[((i - 1) % Len(SECRET_KEY)) + 1])]

Pow2(n) == IF n = 0 THEN 1 ELSE IF n = 1 THEN 2 ELSE IF n = 2 THEN 4 ELSE IF n = 3 THEN 8
           ELSE IF n = 4 THEN 16 ELSE IF n = 5 THEN 32 ELSE IF n = 6 THEN 64 ELSE 128

\* btoa: the bytes as 6-bit digits (0..63, most significant bit first),
\* zero-filled and padded with '=' (written 64) to a multiple of four
btoa(bytes) ==
  LET nBits == 8 * Len(bytes)
      Bit(k) == IF k > nBits THEN 0
                ELSE (bytes[((k - 1) \div 8) + 1] \div Pow2(7 - ((k - 1) % 8))) % 2
      nDigits == (nBits + 5) \div 6
      Digit(j) == 32 * Bit(6 * j - 5) + 16 * Bit(6 * j - 4) + 8 * Bit(6 * j - 3)
                  + 4 * Bit(6 * j - 2) + 2 * Bit(6 * j - 1) + Bit(6 * j)
  IN [j \in 1..(4 * ((nDigits + 3) \div 4)) |-> IF j <= nDigits THEN Digit(j) ELSE 64]

\* atob: the bytes of the digits before the padding
atob(digits) ==
  LET significant == SelectSeq(digits, LAMBDA d : d # 64)
      Bit(k) == (significant[((k - 1) \div 6) + 1] \div Pow2(5 - ((k - 1) % 6))) % 2
      Byte(i) == 128 * Bit(8 * i - 7) + 64 * Bit(8 * i - 6) + 32 * Bit(8 * i - 5)
                 + 16 * Bit(8 * i - 4) + 8 * Bit(8 * i - 3) + 4 * Bit(8 * i - 2)
                 + 2 * Bit(8 * i - 1) + Bit(8 * i)
  IN [i \in 1..((6 * Len(significant)) \div 8) |-> Byte(i)]

\* TokenManager.encrypt and TokenManager.decrypt
encrypt(text) == IF text = <<>> THEN <<>> ELSE btoa(XorWithKey(text))
decrypt(encrypted) == IF encrypted = <<>> THEN <<>> ELSE XorWithKey(atob(encrypted))

\* the tokens a user types: 'figd' and 'tk'
Tokens == {<<102, 105, 103, 100>>, <<116, 107>>}

\* DEFAULT_SETTINGS, and the settings of a plugin configured with both files
DEFAULT_SETTINGS ==
  [figmaToken |-> <<>>, syncInterval |-> 300000, figmaFiles |-> <<>>, fetchFrameInfo |-> FALSE]
ConfiguredSettings ==
  [figmaToken |-> <<102, 105, 103, 100>>, syncInterval |-> 300000,
   figmaFiles |-> FigmaFiles, fetchFrameInfo |-> TRUE]

\* what loadData returns when data.json does not exist
NoData == [none |-> TRUE]

-----------------------------------------------------------------------------
(* Initial values of the plugin's state *)

PluginInit ==
  /\ cache = [k \in FileKeys |-> Absent]
  /\ now = 0
  /\ ticks = 0
  /\ call = Idle
  /\ fetchCount = 0
  /\ clears = 0
  /\ pass = Idle
  /\ vault = [p \in {} |-> Null]
  /\ plugin = [fetchFrameInfo |-> TRUE, frameInfoFetcher |-> TRUE, lastSync |-> ""]
  /\ settings = ConfiguredSettings
  /\ data = NoData
  /\ syncIntervalId = Null
  /\ timers = [id \in {} |-> 0]
  /\ running = <<>>

pluginVars == <<cache, now, ticks, call, fetchCount, clears, pass, vault, plugin>>

-----------------------------------------------------------------------------
(* Direct calls of the pure helpers on generated structures *)

QueryIds == {NodeId(i) : i \in 0..MaxNodes} \cup {"9:9"}
Points == {<<5, 5>>, <<0, 0>>}

ResolveInit ==
  /\ \/ \E n \in 1..MaxNodes : \E p \in ParentVectors(n) :
          \E a \in AttrVectors(n, p, PlainAttrs) : \E id \in QueryIds :
            arg = [fn |-> "findFrameInfo", fileData |-> FileData(n, p, a), nodeId |-> id]
     \/ \E n \in 1..MaxBoxNodes : \E p \in ParentVectors(n) :
          \E a \in AttrVectors(n, p, BoxAttrs) : \E pt \in Points :
            \E fn \in {"findFrameAtCoordinates", "detectorFindFrameAtCoordinates"} :
              arg = [fn |-> fn, fileData |-> FileData(n, p, a), x |-> pt[1], y |-> pt[2]]
  /\ ret = NotCalled
  /\ PluginInit

CallFindFrameInfo ==
  /\ arg.fn = "findFrameInfo" /\ ret = NotCalled
  /\ ret' = findFrameInfo(arg.nodeId, arg.fileData)
  /\ UNCHANGED <<hostVars, arg, pluginVars>>

CallFindFrameAtCoordinates ==
  /\ arg.fn = "findFrameAtCoordinates" /\ ret = NotCalled
  /\ ret' = findFrameAtCoordinates(arg.x, arg.y, arg.fileData)
  /\ UNCHANGED <<hostVars, arg, pluginVars>>

CallDetectorFindFrameAtCoordinates ==
  /\ arg.fn = "detectorFindFrameAtCoordinates" /\ ret = NotCalled
  /\ ret' = DetectorFindFrameAtCoordinates(arg.x, arg.y, arg.fileData)
  /\ UNCHANGED <<hostVars, arg, pluginVars>>

ResolveNext ==
  \/ CallFindFrameInfo
  \/ CallFindFrameAtCoordinates
  \/ CallDetectorFindFrameAtCoordinates

SpecResolve == ResolveInit /\ [][ResolveNext]_vars

-----------------------------------------------------------------------------
(* FrameInfoFetcher: the cache and getFrameInfo *)

\* 24 * 60 * 60 * 1000
CacheMaxAgeMs == 86400000

\* new Date().toISOString() and new Date(iso).getTime(): the calendar day and
\* the time of day, to the millisecond
ToISOString(ms) == [day |-> ms \div CacheMaxAgeMs, msOfDay |-> ms % CacheMaxAgeMs]
GetTime(iso) == iso.day * CacheMaxAgeMs + iso.msOfDay

\* `coord_${x}_${y}`
CoordKey(x, y) == "coord_" \o ToString(x) \o "_" \o ToString(y)

EmptyMap == [k \in {} |-> Null]
MapPut(m, k, v) == [j \in DOMAIN m \cup {k} |-> IF j = k THEN v ELSE m[j]]

\* if (cacheAge > 24 * 60 * 60 * 1000)
Expired(entry, t) == t - GetTime(entry.lastUpdated) > CacheMaxAgeMs

\* getCachedFrameInfo without `delete this.cache[fileKey]`
getCachedFrameInfoNoEvict(c, fileKey, key, t) ==
  [cache |-> c,
   info  |-> IF c[fileKey] # Absent /\ ~Expired(c[fileKey], t)
                /\ key \in DOMAIN c[fileKey].frameMap
             THEN c[fileKey].frameMap[key] ELSE Null]

\* getCachedFrameInfo dropping only the structure of an expired entry
getCachedFrameInfoKeepsResolutions(c, fileKey, key, t) ==
  IF c[fileKey] = Absent THEN [cache |-> c, info |-> Null]
  ELSE IF Expired(c[fileKey], t)
    THEN [cache |-> [c EXCEPT ![fileKey] = Without(@, {"fileStructure"})], info |-> Null]
    ELSE [cache |-> c,
          info  |-> IF key \in DOMAIN c[fileKey].frameMap
                    THEN c[fileKey].frameMap[key] ELSE Null]

\* getCachedFrameInfo: the cache it leaves and what it returns
getCachedFrameInfo(c, fileKey, key, t) ==
  IF c[fileKey] = Absent THEN [cache |-> c, info |-> Null]
  ELSE IF Expired(c[fileKey], t)
    THEN [cache |-> [c EXCEPT ![fileKey] = Absent], info |-> Null]
    ELSE [cache |-> c,
          info  |-> IF key \in DOMAIN c[fileKey].frameMap
                    THEN c[fileKey].frameMap[key] ELSE Null]

\* cacheFrameInfo
cacheFrameInfo(c, fileKey, key, frameInfo, t) ==
  LET entry == IF c[fileKey] = Absent
               THEN [fileKey |-> fileKey, lastUpdated |-> ToISOString(t), frameMap |-> EmptyMap]
               ELSE c[fileKey]
  IN [c EXCEPT ![fileKey] = [entry EXCEPT !.frameMap = MapPut(entry.frameMap, key, frameInfo)]]

\* a request that was rejected (transport error)
Rejected == [rejected |-> TRUE]

\* fetchFileStructure dropping the file's entry when the request fails
StoreFileStructureDropsOnFailure(c, fileKey, response, t) ==
  IF response = Rejected \/ response.status # 200
  THEN [cache |-> [c EXCEPT ![fileKey] = Absent], data |-> Null]
  ELSE [cache |-> IF c[fileKey] = Absent
                  THEN [c EXCEPT ![fileKey] =
                          [fileKey |-> fileKey, lastUpdated |-> ToISOString(t),
                           frameMap |-> EmptyMap, fileStructure |-> response.json]]
                  ELSE c,
        data  |-> response.json]

\* fetchFileStructure after the response: the cache it leaves and the data it
\* returns. A rejected request and a status other than 200 both return null.
StoreFileStructure(c, fileKey, response, t) ==
  IF response = Rejected \/ response.status # 200 THEN [cache |-> c, data |-> Null]
  ELSE [cache |-> IF c[fileKey] = Absent
                  THEN [c EXCEPT ![fileKey] =
                          [fileKey |-> fileKey, lastUpdated |-> ToISOString(t),
                           frameMap |-> EmptyMap, fileStructure |-> response.json]]
                  ELSE c,
        data  |-> response.json]

\* The strategy the stand-alone detector's getFrameInfoByCoordinates picks:
\* its coordinates test is `coordinates && coordinates.x && coordinates.y`,
\* so a zero coordinate counts as none.
DetectorStrategy(nodeId, coordinates) ==
  IF Truthy(nodeId) /\ nodeId # "0:1" THEN [by |-> "id"]
  ELSE IF /\ coordinates # Null
          /\ Has(coordinates, "x") /\ coordinates.x # 0
          /\ Has(coordinates, "y") /\ coordinates.y # 0
    THEN [by |-> "coordinates"]
    ELSE [by |-> "none"]

\* getFrameInfo without `nodeId !== '0:1'`
StrategyNoSentinel(nodeId, coordinates) ==
  IF Truthy(nodeId) THEN [by |-> "id", key |-> nodeId]
  ELSE IF coordinates # Null /\ Has(coordinates, "x") /\ Has(coordinates, "y")
    THEN [by |-> "coordinates", key |-> CoordKey(coordinates.x, coordinates.y)]
    ELSE [by |-> "none"]

\* The strategy getFrameInfo picks: by id, by coordinates, or none.
Strategy(nodeId, coordinates) ==
  IF Truthy(nodeId) /\ nodeId # "0:1" THEN [by |-> "id", key |-> nodeId]
  ELSE IF coordinates # Null /\ Has(coordinates, "x") /\ Has(coordinates, "y")
    THEN [by |-> "coordinates", key |-> CoordKey(coordinates.x, coordinates.y)]
    ELSE [by |-> "none"]

\* What a call record keeps for the properties only: the cache and the time
\* as the call found them, and the result of the preceding call when that call
\* had the same arguments.
Entry(args) ==
  [args |-> args, before |-> cache, at |-> now,
   prev |-> IF call.pc = "returned" /\ call.args = args THEN call.result ELSE NotCalled]

\* getFrameInfo up to its first suspension: it returns at once (nothing to
\* resolve, or a cached FrameInfo), or issues the structure request.
GetFrameInfo(fileKey, nodeId, coordinates) ==
  LET s    == Strategy(nodeId, coordinates)
      args == [fileKey |-> fileKey, nodeId |-> nodeId, coordinates |-> coordinates]
  IN IF s.by = "none"
     THEN /\ call' = With(Entry(args), [pc |-> "returned", result |-> Null, requests |-> 0])
          /\ UNCHANGED <<cache, fetchCount>>
     ELSE LET got == getCachedFrameInfo(cache, fileKey, s.key, now)
          IN /\ cache' = got.cache
             /\ IF got.info # Null
                THEN /\ call' = With(Entry(args),
                                   [pc |-> "returned", result |-> got.info, requests |-> 0])
                     /\ UNCHANGED fetchCount
                ELSE /\ fetchCount < MaxFetches
                     /\ call' = With(Entry(args),
                                   [pc |-> "awaitFetch", by |-> s.by, key |-> s.key])
                     /\ fetchCount' = fetchCount + 1

\* getFrameInfo storing in the resolution map whatever the search returned,
\* null included
ResumeGetFrameInfoCachingMisses(response) ==
  LET stored == StoreFileStructure(cache, call.args.fileKey, response, now)
      frameInfo ==
        IF stored.data = Null THEN Null
        ELSE IF call.by = "id" THEN findFrameInfo(call.args.nodeId, stored.data)
        ELSE findFrameAtCoordinates(call.args.coordinates.x, call.args.coordinates.y, stored.data)
  IN /\ cache' = IF stored.data # Null /\ frameInfo # Threw
                 THEN cacheFrameInfo(stored.cache, call.args.fileKey, call.key, frameInfo, now)
                 ELSE stored.cache
     /\ call' = With(call, [pc |-> "returned", result |-> frameInfo,
                            requests |-> 1, response |-> response])

\* The rest of getFrameInfo, run when the structure request settles.
ResumeGetFrameInfo(response) ==
  LET stored == StoreFileStructure(cache, call.args.fileKey, response, now)
      frameInfo ==
        IF stored.data = Null THEN Null
        ELSE IF call.by = "id" THEN findFrameInfo(call.args.nodeId, stored.data)
        ELSE findFrameAtCoordinates(call.args.coordinates.x, call.args.coordinates.y, stored.data)
  IN /\ cache' = IF frameInfo # Null /\ frameInfo # Threw
                 THEN cacheFrameInfo(stored.cache, call.args.fileKey, call.key, frameInfo, now)
                 ELSE stored.cache
     /\ call' = With(call, [pc |-> "returned", result |-> frameInfo,
                            requests |-> 1, response |-> response])

\* clearCache dropping only the entries that have expired
clearCacheExpiredOnly ==
  cache' = [k \in FileKeys |->
              IF cache[k] # Absent /\ ~Expired(cache[k], now) THEN cache[k] ELSE Absent]

\* clearCache
clearCache == cache' = [k \in FileKeys |-> Absent]

-----------------------------------------------------------------------------
(* The structure provider and the fetcher's direct callers *)

Node(id, type, name, box, children) ==
  [id |-> id, type |-> type, name |-> name, absoluteBoundingBox |-> box, children |-> children]
Leaf(id, type, name, box) ==
  [id |-> id, type |-> type, name |-> name, absoluteBoundingBox |-> box]
Page(children) == [id |-> "0:1", type |-> "CANVAS", name |-> "Page 1", children |-> children]
Document(pages) == [id |-> "0:0", type |-> "DOCUMENT", name |-> "Document", children |-> pages]

\* The file as first designed, and after an edit: the frame renamed, the
\* instance removed, a component added.
Structure1 ==
  [name |-> "file",
   document |-> Document(<<Page(<<
      Node("1:2", "FRAME", "Header", Box(0, 0, 10, 10),
           <<Leaf("1:3", "INSTANCE", "Logo", Box(0, 0, 10, 5))>>)>>)>>)]
Structure2 ==
  [name |-> "file",
   document |-> Document(<<Page(<<
      Node("1:2", "FRAME", "Hero", Box(0, 0, 10, 10),
           <<Leaf("1:4", "COMPONENT", "Button", Box(0, 0, 5, 5))>>)>>)>>)]

Responses ==
  {[status |-> 200, json |-> Structure1], [status |-> 200, json |-> Structure2],
   [status |-> 403], Rejected}

Point(x, y) == [x |-> x, y |-> y]
DirectArgs ==
  {[fileKey |-> "K1", nodeId |-> "", coordinates |-> Null]}
  \cup {[fileKey |-> "K1", nodeId |-> "0:1", coordinates |-> c] :
          c \in {Null, Point(5, 5), Point(0, 5), [x |-> 5]}}
  \cup {[fileKey |-> "K1", nodeId |-> "1:2", coordinates |-> Null],
        [fileKey |-> "K1", nodeId |-> "1:4", coordinates |-> Null],
        [fileKey |-> "K1", nodeId |-> "1:4", coordinates |-> Point(5, 5)],
        [fileKey |-> "K2", nodeId |-> "1:2", coordinates |-> Null]}

FetcherInit ==
  /\ arg = Null
  /\ ret = NotCalled
  /\ PluginInit

\* a caller invokes getFrameInfo
GetFrameInfoCall ==
  /\ call.pc \in {"idle", "returned"}
  /\ \E a \in DirectArgs : GetFrameInfo(a.fileKey, a.nodeId, a.coordinates)
  /\ UNCHANGED <<hostVars, arg, ret, now, ticks, clears, pass, vault, plugin>>

\* the structure request settles and getFrameInfo runs to its return
FetchFileStructureReturn ==
  /\ call.pc = "awaitFetch"
  /\ \E r \in Responses : ResumeGetFrameInfo(r)
  /\ UNCHANGED <<hostVars, arg, ret, now, ticks, fetchCount, clears, pass, vault, plugin>>

\* a caller invokes clearCache (on an empty cache it changes nothing)
ClearCacheCall ==
  /\ \E k \in FileKeys : cache[k] # Absent
  /\ clearCache
  /\ clears' = clears + 1
  /\ UNCHANGED <<hostVars, arg, ret, now, ticks, call, fetchCount, pass, vault, plugin>>

\* time passes: a millisecond, or a day
Tick ==
  /\ ticks < MaxTicks
  /\ \E d \in {1, CacheMaxAgeMs} : now' = now + d
  /\ ticks' = ticks + 1
  /\ UNCHANGED <<hostVars, arg, ret, cache, call, fetchCount, clears, pass, vault, plugin>>

Next ==
  \/ GetFrameInfoCall
  \/ FetchFileStructureReturn
  \/ ClearCacheCall
  \/ Tick

Spec == FetcherInit /\ [][Next]_vars

-----------------------------------------------------------------------------
(* The sync pass: syncAllFiles, syncFile, saveCommentsToSingleFile *)

\* settings.syncFolder of a configured plugin
SyncFolder == "Figma Comments"

\* figmaFiles.filter(file => file.enabled !== false)
enabledFilesOf(figmaFiles) == SelectSeq(figmaFiles, LAMBDA f : f.enabled # FALSE)

\* enabledFiles of the pass in flight: the list the pass filtered out of the
\* settings when it began, where passes keep theirs in `running`; the
\* configured files otherwise
EnabledFiles ==
  IF running # <<>> THEN running[1].enabledFiles ELSE enabledFilesOf(FigmaFiles)

\* comments as the provider returns them
\* an ISO date string of the API, as the time it denotes
Timestamp(t) == [time |-> t]

Comment(id, createdAt, meta) ==
  [id |-> id, created_at |-> createdAt, resolved_at |-> Null, client_meta |-> meta]
CommentOnFrame == Comment("c1", 1, [node_id |-> "1:2"])
CommentOnCanvas == Comment("c2", 2, [node_id |-> "0:1", node_offset |-> Point(5, 5)])
CommentNoAnchor == [id |-> "c3", created_at |-> 3, resolved_at |-> Timestamp(4)]

\* what the comments request of a file can settle with
CommentResponses(fileKey) ==
  IF fileKey = "K1"
  THEN {[status |-> 200, json |-> [comments |-> <<CommentOnFrame, CommentOnCanvas>>]],
        [status |-> 200, json |-> [comments |-> <<CommentOnFrame>>]],
        [status |-> 403], Rejected}
  ELSE {[status |-> 200, json |-> [comments |-> <<CommentNoAnchor>>]], [status |-> 500]}

\* the sort with its comparator reversed (a - b)
RECURSIVE InsertOldestFirst(_, _)
InsertOldestFirst(sorted, c) ==
  IF sorted = <<>> THEN <<c>>
  ELSE IF Head(sorted).created_at <= c.created_at
    THEN <<Head(sorted)>> \o InsertOldestFirst(Tail(sorted), c)
    ELSE <<c>> \o sorted

\* comments.sort((a, b) => created_at(b) - created_at(a)): newest first, stable
RECURSIVE InsertNewestFirst(_, _)
InsertNewestFirst(sorted, c) ==
  IF sorted = <<>> THEN <<c>>
  ELSE IF Head(sorted).created_at >= c.created_at
    THEN <<Head(sorted)>> \o InsertNewestFirst(Tail(sorted), c)
    ELSE <<c>> \o sorted
RECURSIVE SortNewestFirst(_)
SortNewestFirst(comments) ==
  IF comments = <<>> THEN <<>>
  ELSE InsertNewestFirst(SortNewestFirst(SubSeq(comments, 1, Len(comments) - 1)),
                         comments[Len(comments)])

\* `${folderPath}/${file.name}_comments.md`
FilePath(file) == SyncFolder \o "/" \o file.name \o "_comments.md"

\* findExistingFileByKey(folderPath, file.key) || filePath
TargetFiles(v, file) ==
  LET sameKey == {p \in DOMAIN v : v[p].figma_file_key = file.key}
  IN IF sameKey # {} THEN sameKey ELSE {FilePath(file)}

\* the condition under which saveCommentsToSingleFile calls the resolver
ShouldResolve(c) ==
  /\ plugin.fetchFrameInfo
  /\ plugin.frameInfoFetcher
  /\ Has(c, "client_meta") /\ Has(c.client_meta, "node_id") /\ Truthy(c.client_meta.node_id)

\* node_offset ? {x, y} : undefined
Coordinates(c) ==
  IF Has(c.client_meta, "node_offset")
  THEN [f \in DOMAIN c.client_meta.node_offset \cap {"x", "y"} |-> c.client_meta.node_offset[f]]
  ELSE Null

\* c.resolved_at as a condition (filter(c => c.resolved_at)): null and
\* undefined are falsy
HasResolvedAt(c) == Has(c, "resolved_at") /\ c.resolved_at # Null

\* isResolved = comment.resolved_at !== null: undefined is not null
isResolved(c) == ~Has(c, "resolved_at") \/ c.resolved_at # Null

\* a comment's entry in the document, with its Frame and Page lines if resolved
\* (with its checkbox and creation date)
RenderEntry(c, frameInfo) ==
  LET entry == [comment |-> c.id, created_at |-> c.created_at,
                checkbox |-> IF isResolved(c) THEN "- [x]" ELSE "- [ ]"]
  IN IF frameInfo # Null
     THEN With(entry, [Frame |-> frameInfo.fullPath, Page |-> frameInfo.pageName])
     ELSE entry

\* the frontmatter counts and the entries
RenderDocument(file, comments, entries) ==
  [figma_file_key |-> file.key, title |-> file.name,
   total_comments |-> Len(comments),
   resolved_comments |-> Len(SelectSeq(comments, HasResolvedAt)),
   open_comments |-> Len(SelectSeq(comments, LAMBDA c : ~HasResolvedAt(c))),
   entries |-> entries]

\* the pass after the comment at pass.i got its entry; `failed` keeps, for the
\* properties only, the comments whose structure request failed
Rendered(frameInfo, requestFailed) ==
  With(pass, [pc |-> "render", i |-> pass.i + 1,
              content |-> Append(pass.content, RenderEntry(pass.comments[pass.i], frameInfo)),
              failed |-> IF requestFailed THEN pass.failed \cup {pass.comments[pass.i].id}
                         ELSE pass.failed])

\* the for loop of syncAllFiles without its try/catch: an error ends the pass
MoveOnFromUncaught(f) ==
  /\ pass' = [pc |-> "done"]
  /\ UNCHANGED plugin

\* the for loop of syncAllFiles moves on from file f; after the last file the
\* pass records lastSync
MoveOnFrom(f) ==
  IF f < Len(EnabledFiles)
  THEN /\ pass' = [pc |-> "fetchComments", f |-> f + 1]
       /\ UNCHANGED plugin
  ELSE /\ pass' = [pc |-> "done"]
       /\ plugin' = [plugin EXCEPT !.lastSync = ToISOString(now)]

SyncInit ==
  /\ arg = Null
  /\ ret = NotCalled
  /\ PluginInit

\* syncAllFiles(clearCache), from the timer (false) or a manual trigger (true),
\* up to the comments request of the first enabled file. `clears` counts the
\* clears that dropped something.
SyncAllFiles ==
  /\ pass.pc \in {"idle", "done"}
  /\ \E clearFlag \in BOOLEAN :
       IF clearFlag /\ plugin.fetchFrameInfo /\ plugin.frameInfoFetcher
       THEN /\ clearCache
            /\ clears' = IF \E k \in FileKeys : cache[k] # Absent THEN clears + 1 ELSE clears
       ELSE UNCHANGED <<cache, clears>>
  /\ pass' = [pc |-> "fetchComments", f |-> 1]
  /\ UNCHANGED <<hostVars, arg, ret, now, ticks, call, fetchCount, vault, plugin>>

\* the comments request settles: fetchComments throws on a failure, which ends
\* this file's sync; otherwise saveCommentsToSingleFile picks the target file
\* and sorts the comments
FetchCommentsReturn ==
  /\ pass.pc = "fetchComments"
  /\ LET file == EnabledFiles[pass.f]
     IN \E response \in CommentResponses(file.key) :
          IF response = Rejected \/ response.status # 200
          THEN MoveOnFrom(pass.f)
          ELSE /\ \E target \in TargetFiles(vault, file) :
                    pass' = [pc |-> "render", f |-> pass.f, target |-> target,
                             comments |-> SortNewestFirst(response.json.comments),
                             i |-> 1, content |-> <<>>, failed |-> {}]
               /\ UNCHANGED plugin
  /\ UNCHANGED <<hostVars, arg, ret, cache, now, ticks, call, fetchCount, clears, vault>>

\* one turn of the comments loop, up to the resolver's return or suspension
RenderComment ==
  /\ pass.pc = "render" /\ pass.i <= Len(pass.comments)
  /\ LET c == pass.comments[pass.i]
     IN IF ShouldResolve(c)
        THEN /\ GetFrameInfo(EnabledFiles[pass.f].key, c.client_meta.node_id, Coordinates(c))
             /\ pass' = IF call'.pc = "returned"
                        THEN Rendered(call'.result, FALSE)
                        ELSE With(pass, [pc |-> "awaitResolve"])
        ELSE /\ pass' = Rendered(Null, FALSE)
             /\ UNCHANGED <<call, cache, fetchCount>>
  /\ UNCHANGED <<hostVars, arg, ret, now, ticks, clears, vault, plugin>>

\* a response with status 200 whose body has no document root
MalformedStructure == [name |-> "file"]
SyncResponses == Responses \cup {[status |-> 200, json |-> MalformedStructure]}

\* the structure request of the suspended resolver settles; an exception out
\* of the resolver ends this file's sync
ResolveReturn ==
  /\ pass.pc = "awaitResolve" /\ call.pc = "awaitFetch"
  /\ \E response \in SyncResponses :
       /\ ResumeGetFrameInfo(response)
       /\ IF call'.result = Threw
          THEN MoveOnFrom(pass.f)
          ELSE /\ pass' = Rendered(call'.result, response = Rejected \/ response.status # 200)
               /\ UNCHANGED plugin
  /\ UNCHANGED <<hostVars, arg, ret, now, ticks, fetchCount, clears, vault>>

\* after the last comment: vault.modify or vault.create of the target file
WriteDocument ==
  /\ pass.pc = "render" /\ pass.i > Len(pass.comments)
  /\ vault' = MapPut(vault, pass.target,
                     RenderDocument(EnabledFiles[pass.f], pass.comments, pass.content))
  /\ MoveOnFrom(pass.f)
  /\ UNCHANGED <<hostVars, arg, ret, cache, now, ticks, call, fetchCount, clears>>

SyncNext ==
  \/ SyncAllFiles
  \/ FetchCommentsReturn
  \/ RenderComment
  \/ ResolveReturn
  \/ WriteDocument
  \/ Tick

SpecSync == SyncInit /\ [][SyncNext]_vars

\* Every request of a pass settles and every continuation of the pass runs;
\* nothing obliges a trigger to fire or the clock to advance.
FairSpecSync ==
  SpecSync /\ WF_vars(FetchCommentsReturn \/ RenderComment \/ ResolveReturn \/ WriteDocument)

-----------------------------------------------------------------------------
(* The sync pass with a user who renames documents in the sync folder *)

\* the names a user gives to a document of the sync folder
UserPaths == {SyncFolder \o "/Review.md", SyncFolder \o "/Archive.md"}

MapRemove(map, key) == [k \in DOMAIN map \ {key} |-> map[k]]

\* the user renames a document inside the sync folder, at a moment the plugin
\* is not running: before a pass, after it, or while it awaits a request
RenameDocument ==
  /\ pass.pc \in {"idle", "done", "fetchComments", "awaitResolve"}
  /\ \E from \in DOMAIN vault : \E to \in UserPaths \ DOMAIN vault :
       vault' = MapPut(MapRemove(vault, from), to, vault[from])
  /\ UNCHANGED <<hostVars, arg, ret, cache, now, ticks, call, fetchCount, clears, pass, plugin>>

VaultNext ==
  \/ SyncNext
  \/ RenameDocument

SpecVault == SyncInit /\ [][VaultNext]_vars

-----------------------------------------------------------------------------
(* The plugin's lifecycle, its settings tab, the timer and the sync triggers *)

MaxPasses == 2

\* a blob an earlier run left in data.json, from when the runtime data was
\* saved with the settings
LegacyData ==
  [figmaToken |-> <<116, 107>>, syncInterval |-> 300000, figmaFiles |-> <<FigmaFiles[1]>>,
   fetchFrameInfo |-> TRUE, lastSync |-> ToISOString(0),
   frameInfoCache |-> cacheFrameInfo([k \in FileKeys |-> Absent], "K1", "1:2",
                                     [nodeId |-> "1:2", frameName |-> "Login",
                                      pageName |-> "Page 1", fullPath |-> "Page 1 > Login"], 0)]

\* this.settings after loadSettings has read loadedData
LoadSettings(loadedData) ==
  LET persistentSettings ==
        IF loadedData = NoData THEN [f \in {} |-> Null]
        ELSE Without(loadedData, {"lastSync", "frameInfoCache"})
      assigned == With(DEFAULT_SETTINGS, persistentSettings)
  IN IF /\ Has(assigned, "encryptedToken") /\ assigned.encryptedToken # <<>>
        /\ assigned.figmaToken = <<>>
     THEN [assigned EXCEPT !.figmaToken = decrypt(assigned.encryptedToken)]
     ELSE assigned

\* this.runtimeData after loadSettings has read loadedData
LoadRuntimeData(loadedData) ==
  [lastSync |-> IF loadedData # NoData /\ Has(loadedData, "lastSync")
                THEN loadedData.lastSync ELSE "",
   frameInfoCache |-> IF loadedData # NoData /\ Has(loadedData, "frameInfoCache")
                      THEN loadedData.frameInfoCache ELSE [k \in FileKeys |-> Absent]]

\* saveSettings spreading the runtime data into the blob as well
SettingsToSaveWithRuntimeData(s) ==
  LET settingsToSave ==
        With(s, [lastSync |-> plugin.lastSync, frameInfoCache |-> cache])
  IN IF s.figmaToken # <<>>
     THEN Without(With(settingsToSave, [encryptedToken |-> encrypt(s.figmaToken)]), {"figmaToken"})
     ELSE settingsToSave

\* the blob saveSettings hands to saveData
SettingsToSave(s) ==
  LET settingsToSave ==
        IF s.figmaToken # <<>>
        THEN Without(With(s, [encryptedToken |-> encrypt(s.figmaToken)]), {"figmaToken"})
        ELSE s
  IN Without(settingsToSave, {"lastSync", "frameInfoCache"})

\* saveSettings once a handler has assigned s to this.settings: when frame
\* info is on and a token is set the fetcher is kept as it is, or created with
\* the token of s if there is none; otherwise it is dropped.
\* plugin.fetcherToken is the fetcher's private field `token`.
saveSettings(s) ==
  /\ settings' = s
  /\ plugin' = IF s.fetchFrameInfo /\ s.figmaToken # <<>>
               THEN [plugin EXCEPT !.fetchFrameInfo = s.fetchFrameInfo,
                                   !.frameInfoFetcher = TRUE,
                                   !.fetcherToken = IF plugin.frameInfoFetcher THEN @
                                                    ELSE s.figmaToken]
               ELSE [plugin EXCEPT !.fetchFrameInfo = s.fetchFrameInfo,
                                   !.frameInfoFetcher = FALSE,
                                   !.fetcherToken = Null]
  /\ data' = SettingsToSave(s)

\* stopAutoSync: window.clearInterval of the plugin's timer, if it holds one
stopAutoSync(ts) == IF syncIntervalId # Null THEN MapRemove(ts, syncIntervalId.id) ELSE ts

\* the id window.setInterval returns: a positive integer no active timer has
TimerId(ts) == CHOOSE n \in 1..(Cardinality(DOMAIN ts) + 1) :
                 n \notin DOMAIN ts /\ \A k \in 1..(n - 1) : k \in DOMAIN ts

\* startAutoSync without its call of stopAutoSync
startAutoSyncWithoutStop(s) ==
  IF s.syncInterval > 0
  THEN /\ timers' = MapPut(timers, TimerId(timers), s.syncInterval)
       /\ syncIntervalId' = [id |-> TimerId(timers)]
  ELSE UNCHANGED <<timers, syncIntervalId>>

\* startAutoSync with s in this.settings
startAutoSync(s) ==
  LET stopped == stopAutoSync(timers)
  IN IF s.syncInterval > 0
     THEN /\ timers' = MapPut(stopped, TimerId(stopped), s.syncInterval)
          /\ syncIntervalId' = [id |-> TimerId(stopped)]
     ELSE /\ timers' = stopped
          /\ syncIntervalId' = Null

\* the state onload leaves when data.json holds loadedData
Loaded(loadedData) ==
  LET s == LoadSettings(loadedData)
      runtimeData == LoadRuntimeData(loadedData)
  IN /\ settings' = s
     /\ plugin' = [fetchFrameInfo |-> s.fetchFrameInfo,
                   frameInfoFetcher |-> s.fetchFrameInfo /\ s.figmaToken # <<>>,
                   fetcherToken |-> IF s.fetchFrameInfo /\ s.figmaToken # <<>>
                                    THEN s.figmaToken ELSE Null,
                   lastSync |-> runtimeData.lastSync]
     /\ cache' = runtimeData.frameInfoCache
     /\ IF s.figmaToken # <<>> /\ Len(s.figmaFiles) > 0
        THEN startAutoSync(s)
        ELSE UNCHANGED <<syncIntervalId, timers>>

\* the plugin before Obsidian has called onload
HostInit ==
  /\ arg = Null
  /\ ret = NotCalled
  /\ cache = [k \in FileKeys |-> Absent]
  /\ now = 0
  /\ ticks = 0
  /\ call = Idle
  /\ fetchCount = 0
  /\ clears = 0
  /\ pass = Idle
  /\ vault = [p \in {} |-> Null]
  /\ plugin = [fetchFrameInfo |-> FALSE, frameInfoFetcher |-> FALSE, fetcherToken |-> Null,
               lastSync |-> ""]
  /\ settings = DEFAULT_SETTINGS
  /\ data \in {NoData, LegacyData}
  /\ syncIntervalId = Null
  /\ timers = [id \in {} |-> 0]
  /\ running = <<>>

\* the variables the lifecycle and the settings tab leave alone
callVars == <<ret, now, ticks, call, fetchCount, clears, pass>>

\* onload has registered the settings tab, the ribbon icon and the command,
\* and onunload has not run since
PluginLoaded == arg # Null /\ arg.fn = "onload"

\* Obsidian loads the plugin (onload), the first time or after an onunload
Onload ==
  /\ ~PluginLoaded
  /\ running = <<>>
  /\ Loaded(data)
  /\ arg' = [fn |-> "onload"]
  /\ UNCHANGED <<callVars, vault, data, running>>

\* Obsidian unloads the plugin while no pass is in flight: onunload calls
\* stopAutoSync, and the intervals given to registerInterval are cleared
Onunload ==
  /\ PluginLoaded
  /\ running = <<>>
  /\ timers' = EmptyMap
  /\ syncIntervalId' = Null
  /\ arg' = [fn |-> "onunload"]
  /\ UNCHANGED <<callVars, cache, vault, plugin, settings, data, running>>

\* the token field's onChange
SetToken ==
  /\ PluginLoaded
  /\ \E value \in Tokens \cup {<<>>} :
       saveSettings([settings EXCEPT !.figmaToken = value])
  /\ UNCHANGED <<callVars, arg, cache, vault, syncIntervalId, timers, running>>

\* the interval field's onChange: minutes * 60000, saveSettings, startAutoSync
SetSyncInterval ==
  /\ PluginLoaded
  /\ \E minutes \in {-1, 0, 1, 5} :
       LET s == [settings EXCEPT !.syncInterval = minutes * 60000]
       IN saveSettings(s) /\ startAutoSync(s)
  /\ UNCHANGED <<callVars, arg, cache, vault, running>>

\* the frame information toggle's onChange
SetFetchFrameInfo ==
  /\ PluginLoaded
  /\ \E value \in BOOLEAN :
       saveSettings([settings EXCEPT !.fetchFrameInfo = value])
  /\ UNCHANGED <<callVars, arg, cache, vault, syncIntervalId, timers, running>>

\* the Add button with a name and a key of ten characters or more: the user
\* adds the files of FigmaFiles in their order
AddFile ==
  /\ PluginLoaded
  /\ Len(settings.figmaFiles) < Len(FigmaFiles)
  /\ LET newFile == FigmaFiles[Len(settings.figmaFiles) + 1]
     IN saveSettings([settings EXCEPT !.figmaFiles = Append(@, newFile)])
  /\ UNCHANGED <<callVars, arg, cache, vault, syncIntervalId, timers, running>>

\* a file's Remove button: figmaFiles.splice(index, 1); the user removes the
\* file added last
RemoveFile ==
  /\ PluginLoaded
  /\ \E index \in {Len(settings.figmaFiles)} \ {0} :
       saveSettings([settings EXCEPT !.figmaFiles =
                       SubSeq(@, 1, index - 1) \o SubSeq(@, index + 1, Len(@))])
  /\ UNCHANGED <<callVars, arg, cache, vault, syncIntervalId, timers, running>>

\* the Clear cache button, shown when frame information is on
ClearCacheButton ==
  /\ PluginLoaded
  /\ settings.fetchFrameInfo
  /\ clearCache
  /\ UNCHANGED <<callVars, arg, vault, plugin, hostVars>>

\* syncAllFiles(clearCache) up to its first await: it returns at once without
\* a token or without files
StartPass(clearFlag) ==
  /\ PluginLoaded
  /\ settings.figmaToken # <<>>
  /\ Len(settings.figmaFiles) > 0
  /\ Len(running) < MaxPasses
  /\ IF clearFlag /\ settings.fetchFrameInfo THEN clearCache ELSE UNCHANGED cache
  /\ LET enabledFiles == SelectSeq(settings.figmaFiles, LAMBDA f : f.enabled # FALSE)
     IN running' = Append(running, [enabledFiles |-> enabledFiles, f |-> 1])
  /\ UNCHANGED <<callVars, arg, vault, plugin, settings, data, syncIntervalId, timers>>

\* the ribbon icon, the command and the Sync now button
ManualSync ==
  /\ PluginLoaded
  /\ StartPass(TRUE)

\* the callback of setInterval
TimerFires ==
  /\ DOMAIN timers # {}
  /\ StartPass(FALSE)

\* the syncFile a pass awaits settles: the comments request fails (caught), or
\* returns no comments and the file's document is written; the loop moves on
\* and after the last file the pass sets lastSync and returns
SyncFileSettles ==
  /\ \E p \in 1..Len(running) :
       LET file == running[p].enabledFiles[running[p].f]
       IN /\ \/ UNCHANGED vault
             \/ \E target \in TargetFiles(vault, file) :
                  vault' = MapPut(vault, target, RenderDocument(file, <<>>, <<>>))
          /\ IF running[p].f < Len(running[p].enabledFiles)
             THEN /\ running' = [running EXCEPT ![p].f = @ + 1]
                  /\ UNCHANGED plugin
             ELSE /\ running' = SubSeq(running, 1, p - 1) \o SubSeq(running, p + 1, Len(running))
                  /\ plugin' = [plugin EXCEPT !.lastSync = ToISOString(now)]
  /\ UNCHANGED <<callVars, arg, cache, settings, data, syncIntervalId, timers>>

HostNext ==
  \/ Onload
  \/ Onunload
  \/ SetToken
  \/ SetSyncInterval
  \/ SetFetchFrameInfo
  \/ AddFile
  \/ RemoveFile
  \/ ClearCacheButton
  \/ ManualSync
  \/ TimerFires
  \/ SyncFileSettles

SpecPlugin == HostInit /\ [][HostNext]_vars

-----------------------------------------------------------------------------
(* saveCommentsToSingleFile on generated comment lists *)

MaxComments == 3

\* created_at, and resolved_at as a timestamp, null or missing
CommentShapes ==
  {[created_at |-> t] : t \in {1, 2}}
  \cup {[created_at |-> t, resolved_at |-> r] : t \in {1, 2}, r \in {Null, Timestamp(5)}}

RenderInit ==
  /\ \E n \in 0..MaxComments : \E shapes \in [1..n -> CommentShapes] :
       arg = [fn |-> "saveCommentsToSingleFile", file |-> FigmaFiles[1],
              comments |-> [i \in 1..n |-> With(shapes[i], [id |-> "c" \o ToString(i)])]]
  /\ ret = NotCalled
  /\ PluginInit

\* the document saveCommentsToSingleFile builds for comments without anchors
CallSaveCommentsToSingleFile ==
  /\ arg.fn = "saveCommentsToSingleFile" /\ ret = NotCalled
  /\ LET sortedComments == SortNewestFirst(arg.comments)
     IN ret' = RenderDocument(arg.file, arg.comments,
                 [i \in 1..Len(sortedComments) |-> RenderEntry(sortedComments[i], Null)])
  /\ UNCHANGED <<hostVars, arg, pluginVars>>

RenderNext == CallSaveCommentsToSingleFile

SpecRender == RenderInit /\ [][RenderNext]_vars

-----------------------------------------------------------------------------
(* traverseNodes and isPointInBounds on generated inputs *)

MaxCoord == 3

\* boxes of non-negative width and height, and points around them
HelperBoxes ==
  {Box(x, y, w, h) : x \in 0..1, y \in 0..1, w \in 0..(MaxCoord - 2), h \in 0..(MaxCoord - 2)}
HelperPoints == (0..MaxCoord) \X (0..MaxCoord)

\* every tree of at most MaxNodes nodes below the document
HelperTrees ==
  UNION {{[n |-> n, parent |-> p,
           node |-> BuildNode(0, n, p, [i \in 1..n |-> [type |-> "GROUP"]])] :
             p \in ParentVectors(n)} : n \in 0..MaxNodes}

\* the indexes of the nodes from the document down to node i
RECURSIVE AncestorsOf(_, _)
AncestorsOf(i, parent) ==
  IF i = 0 THEN <<0>> ELSE Append(AncestorsOf(parent[i], parent), i)

\* node i is node j or lies below it
Below(i, j, parent) ==
  \E m \in DOMAIN AncestorsOf(i, parent) : AncestorsOf(i, parent)[m] = j

HelpersInit ==
  /\ \/ \E b \in HelperBoxes : \E p \in HelperPoints :
          arg = [fn |-> "isPointInBounds", x |-> p[1], y |-> p[2], bounds |-> b]
     \/ \E t \in HelperTrees :
          arg = With(t, [fn |-> "traverseNodes"])
  /\ ret = NotCalled
  /\ PluginInit

CallIsPointInBounds ==
  /\ arg.fn = "isPointInBounds" /\ ret = NotCalled
  /\ ret' = [inside |-> isPointInBounds(arg.x, arg.y, arg.bounds)]
  /\ UNCHANGED <<hostVars, arg, pluginVars>>

\* the callback records each call it receives
CallTraverseNodes ==
  /\ arg.fn = "traverseNodes" /\ ret = NotCalled
  /\ ret' = [visits |-> traverseNodes(arg.node, <<>>)]
  /\ UNCHANGED <<hostVars, arg, pluginVars>>

HelpersNext == CallIsPointInBounds \/ CallTraverseNodes

SpecHelpers == HelpersInit /\ [][HelpersNext]_vars

-----------------------------------------------------------------------------
(* The sync pass with a user who switches 'fetch frame information' off and on *)

\* plugin.frameInfoCache is runtimeData.frameInfoCache: SharedCache while it
\* is the very object the fetcher works on (then `cache` is its content),
\* its own content otherwise. plugin.fetchesAtManualSync keeps, for the
\* properties only, the number of structure requests issued before the last
\* manual trigger (-1 before the first one).
SharedCache == [shared |-> TRUE]
EmptyCache == [k \in FileKeys |-> Absent]

ToggleInit ==
  /\ arg = Null
  /\ ret = NotCalled
  /\ cache = EmptyCache
  /\ now = 0
  /\ ticks = 0
  /\ call = Idle
  /\ fetchCount = 0
  /\ clears = 0
  /\ pass = Idle
  /\ vault = [p \in {} |-> Null]
  /\ plugin = [fetchFrameInfo |-> TRUE, frameInfoFetcher |-> TRUE, lastSync |-> "",
               frameInfoCache |-> SharedCache, fetchesAtManualSync |-> -1]
  /\ settings = ConfiguredSettings
  /\ data = NoData
  /\ syncIntervalId = Null
  /\ timers = [id \in {} |-> 0]
  /\ running = <<>>

\* syncAllFiles(clearFlag), begun when no pass is in flight, up to the
\* comments request of the first enabled file: with the flag and the setting on, runtimeData.frameInfoCache becomes
\* a new empty object and the fetcher, if there is one, empties its own
StartSync(clearFlag) ==
  /\ IF clearFlag /\ settings.fetchFrameInfo
     THEN /\ IF plugin.frameInfoFetcher THEN clearCache ELSE UNCHANGED cache
          /\ clears' = IF \E k \in FileKeys : cache[k] # Absent THEN clears + 1 ELSE clears
          /\ plugin' = [plugin EXCEPT !.frameInfoCache = EmptyCache,
                                      !.fetchesAtManualSync = fetchCount]
     ELSE /\ UNCHANGED <<cache, clears>>
          /\ plugin' = IF clearFlag
                       THEN [plugin EXCEPT !.fetchesAtManualSync = fetchCount]
                       ELSE plugin
  /\ pass' = [pc |-> "fetchComments", f |-> 1]
  /\ call' = Idle
  /\ UNCHANGED <<hostVars, arg, ret, now, ticks, fetchCount, vault>>

\* the timer's callback
TimerSync ==
  /\ pass.pc \in {"idle", "done"}
  /\ StartSync(FALSE)

\* the ribbon icon, the command or the 'Sync now' button
ManualSyncTrigger ==
  /\ pass.pc \in {"idle", "done"}
  /\ StartSync(TRUE)

\* the 'fetch frame information' toggle's onChange, between two passes:
\* saveSettings drops the fetcher when the setting is off and builds a new
\* one on runtimeData.frameInfoCache when it is on and there is none
ToggleFetchFrameInfo ==
  /\ pass.pc \in {"idle", "done"}
  /\ LET s  == [settings EXCEPT !.fetchFrameInfo = ~settings.fetchFrameInfo]
         on == s.fetchFrameInfo /\ s.figmaToken # <<>>
     IN /\ settings' = s
        /\ data' = SettingsToSave(s)
        /\ IF on
           THEN IF plugin.frameInfoFetcher
                THEN /\ plugin' = [plugin EXCEPT !.fetchFrameInfo = s.fetchFrameInfo]
                     /\ UNCHANGED cache
                ELSE /\ cache' = plugin.frameInfoCache
                     /\ plugin' = [plugin EXCEPT !.fetchFrameInfo = s.fetchFrameInfo,
                                                 !.frameInfoFetcher = TRUE,
                                                 !.frameInfoCache = SharedCache]
           ELSE /\ cache' = EmptyCache
                /\ plugin' = [plugin EXCEPT !.fetchFrameInfo = s.fetchFrameInfo,
                                            !.frameInfoFetcher = FALSE,
                                            !.frameInfoCache =
                                               IF plugin.frameInfoCache = SharedCache
                                               THEN cache ELSE plugin.frameInfoCache]
  /\ UNCHANGED <<arg, ret, now, ticks, call, fetchCount, clears, pass, vault,
                 syncIntervalId, timers, running>>

ToggleNext ==
  \/ TimerSync
  \/ ManualSyncTrigger
  \/ ToggleFetchFrameInfo
  \/ FetchCommentsReturn
  \/ RenderComment
  \/ ResolveReturn
  \/ WriteDocument

SpecToggle == ToggleInit /\ [][ToggleNext]_vars

-----------------------------------------------------------------------------
(* getFrameInfo for anchors the file gains between two fetches *)

\* Structure1 after a frame was added away from the others
Structure3 ==
  [name |-> "file",
   document |-> Document(<<Page(<<
      Node("1:2", "FRAME", "Header", Box(0, 0, 10, 10),
           <<Leaf("1:3", "INSTANCE", "Logo", Box(0, 0, 10, 5))>>),
      Leaf("1:5", "FRAME", "Footer", Box(20, 20, 5, 5))>>)>>)]

GrowingResponses ==
  {[status |-> 200, json |-> Structure1], [status |-> 200, json |-> Structure3]}

\* the added frame by its id and by a point inside it, and a frame that was
\* there from the start
GrowingArgs ==
  {[fileKey |-> "K1", nodeId |-> "1:5", coordinates |-> Null],
   [fileKey |-> "K1", nodeId |-> "0:1", coordinates |-> Point(22, 22)],
   [fileKey |-> "K1", nodeId |-> "1:2", coordinates |-> Null]}

\* a caller invokes getFrameInfo
GetFrameInfoOfGrowingFile ==
  /\ call.pc \in {"idle", "returned"}
  /\ \E a \in GrowingArgs : GetFrameInfo(a.fileKey, a.nodeId, a.coordinates)
  /\ UNCHANGED <<hostVars, arg, ret, now, ticks, clears, pass, vault, plugin>>

\* the structure request settles and getFrameInfo runs to its return
GrowingFileReturn ==
  /\ call.pc = "awaitFetch"
  /\ \E r \in GrowingResponses : ResumeGetFrameInfo(r)
  /\ UNCHANGED <<hostVars, arg, ret, now, ticks, fetchCount, clears, pass, vault, plugin>>

GrowingNext ==
  \/ GetFrameInfoOfGrowingFile
  \/ GrowingFileReturn
  \/ Tick

SpecGrowing == FetcherInit /\ [][GrowingNext]_vars

-----------------------------------------------------------------------------
(* CoordinateBasedFrameDetector.getFrameInfoByCoordinates and its callers *)

\* getFrameInfoByNodeId of the detector, after its structure is at hand: the
\* traversal keeps the last node with the id
DetectorGetFrameInfoByNodeId(nodeId, fileStructure) ==
  IF ~Has(fileStructure, "document") THEN Threw
  ELSE
    LET visits == traverseNodes(fileStructure.document, <<>>)
        found  == {k \in 1..Len(visits) : visits[k].node.id = nodeId}
    IN IF found = {} THEN Null
       ELSE LET k == CHOOSE i \in found : \A j \in found : j <= i
            IN buildFrameInfo(visits[k].node, visits[k].path)

\* what the detector returns once fetchFileStructure has given it a structure
DetectorSearch(c, fileStructure) ==
  IF c.by = "id" THEN DetectorGetFrameInfoByNodeId(c.args.nodeId, fileStructure)
  ELSE DetectorFindFrameAtCoordinates(c.args.coordinates.x, c.args.coordinates.y, fileStructure)

\* fetchFileStructure of the detector answers from an entry younger than 24
\* hours
DetectorCached(c, fileKey, t) ==
  IF c[fileKey] # Absent /\ t - GetTime(c[fileKey].lastUpdated) < CacheMaxAgeMs
  THEN c[fileKey].fileStructure ELSE Null

DetectorArgs ==
  {[fileKey |-> "K1", nodeId |-> id, coordinates |-> c] :
      id \in {"", "0:1", "1:4"}, c \in {Null, Point(5, 5), Point(0, 5), [x |-> 5]}}

\* getFrameInfoByCoordinates up to its first suspension: nothing to resolve,
\* a search of the cached structure, or the structure request
DetectorGetFrameInfoByCoordinates ==
  /\ call.pc \in {"idle", "returned"}
  /\ \E a \in DetectorArgs :
       LET s == DetectorStrategy(a.nodeId, a.coordinates)
           c == [args |-> a, by |-> s.by]
           fileStructure == DetectorCached(cache, a.fileKey, now)
       IN IF s.by = "none"
          THEN /\ call' = With(c, [pc |-> "returned", result |-> Null, requests |-> 0])
               /\ UNCHANGED fetchCount
          ELSE IF fileStructure # Null
            THEN /\ call' = With(c, [pc |-> "returned", requests |-> 0,
                                     result |-> DetectorSearch(c, fileStructure)])
                 /\ UNCHANGED fetchCount
            ELSE /\ fetchCount < MaxFetches
                 /\ call' = With(c, [pc |-> "awaitFetch"])
                 /\ fetchCount' = fetchCount + 1
  /\ UNCHANGED <<hostVars, arg, ret, cache, now, ticks, clears, pass, vault, plugin>>

\* the request settles: a failure gives null, a success replaces the file's
\* entry and the search runs on the data
DetectorFetchReturn ==
  /\ call.pc = "awaitFetch"
  /\ \E response \in Responses :
       IF response = Rejected \/ response.status # 200
       THEN /\ call' = With(call, [pc |-> "returned", result |-> Null,
                                   requests |-> 1, response |-> response])
            /\ UNCHANGED cache
       ELSE /\ cache' = [cache EXCEPT ![call.args.fileKey] =
                           [fileKey |-> call.args.fileKey, lastUpdated |-> ToISOString(now),
                            frameMap |-> EmptyMap, fileStructure |-> response.json]]
            /\ call' = With(call, [pc |-> "returned", requests |-> 1, response |-> response,
                                   result |-> DetectorSearch(call, response.json)])
  /\ UNCHANGED <<hostVars, arg, ret, now, ticks, fetchCount, clears, pass, vault, plugin>>

DetectorNext ==
  \/ DetectorGetFrameInfoByCoordinates
  \/ DetectorFetchReturn
  \/ Tick

SpecDetector == FetcherInit /\ [][DetectorNext]_vars

-----------------------------------------------------------------------------
(* traverseNodes call by call, on structures that may hold a cycle *)

MaxWalkNodes == 3

\* the depth at which the engine gives up a recursion with a RangeError;
\* deeper than every tree of MaxWalkNodes nodes
MaxCallStack == MaxWalkNodes + 2

RangeError == [threw |-> "RangeError"]

\* A structure as an object graph: the tree of a parent vector and, with
\* back = <<a, b>>, node b once more as the last child of its descendant a.
WalkGraphs ==
  UNION {{[n |-> n, parent |-> p, back |-> b] :
            p \in ParentVectors(n),
            b \in {<<>>} \cup {<<i, j>> : i \in 1..n, j \in 1..n}} : n \in 1..MaxWalkNodes}

\* node i of the graph g, its children given by their indexes
WalkChildren(g, i) ==
  SortedSeq({j \in 1..g.n : g.parent[j] = i})
    \o (IF g.back # <<>> /\ g.back[1] = i THEN <<g.back[2]>> ELSE <<>>)
WalkNode(g, i) ==
  LET base == [id |-> NodeId(i), name |-> NodeName(i)]
  IN IF i = 0 THEN With(base, [type |-> "DOCUMENT"])
     ELSE IF g.parent[i] = 0 THEN With(base, [type |-> "CANVAS"])
     ELSE With(base, [type |-> "FRAME", absoluteBoundingBox |-> Box(0, 0, 10, 10 + i)])

WalkInit ==
  /\ \E g \in WalkGraphs :
       /\ g.back # <<>> => Below(g.back[1], g.back[2], g.parent)
       /\ arg = With(g, [fn |-> "findFrameAtCoordinates", x |-> 5, y |-> 5])
  /\ ret = NotCalled
  /\ PluginInit

\* the callback of findFrameAtCoordinates on node i, reached along the
\* nodes of the call stack
WalkCallback(best, i, path) ==
  LET node   == WalkNode(arg, i)
      hit    == /\ isFrameNode(node)
                /\ Has(node, "absoluteBoundingBox")
                /\ isPointInBounds(arg.x, arg.y, node.absoluteBoundingBox)
      bounds == node.absoluteBoundingBox
      score  == Score(1000000, bounds.width * bounds.height)
  IN IF hit /\ ScoreGT(score, best.bestScore)
     THEN [bestScore |-> score, bestMatchNode |-> node, bestMatchPath |-> path]
     ELSE best

\* the nodes of the frames on the stack: the path argument of the top call
WalkPath(stack) == [k \in 1..Len(stack) |-> WalkNode(arg, stack[k].node)]

\* findFrameAtCoordinates calls traverseNodes on the document
WalkStart ==
  /\ arg.fn = "findFrameAtCoordinates" /\ ret = NotCalled /\ call.pc = "idle"
  /\ LET stack == <<[node |-> 0, next |-> 1]>>
     IN call' = [pc |-> "walking", stack |-> stack,
                 best |-> WalkCallback([bestScore |-> Score(-1, 1), bestMatchNode |-> Null,
                                        bestMatchPath |-> <<>>], 0, WalkPath(stack))]
  /\ UNCHANGED <<hostVars, arg, ret, cache, now, ticks, fetchCount, clears, pass, vault, plugin>>

\* the top call of traverseNodes recurses into its next child; with the
\* stack full the engine throws, and nothing on the way out catches
WalkDescend ==
  /\ call.pc = "walking"
  /\ LET top  == call.stack[Len(call.stack)]
         kids == WalkChildren(arg, top.node)
     IN /\ top.next <= Len(kids)
        /\ IF Len(call.stack) >= MaxCallStack
           THEN /\ call' = [pc |-> "done", depth |-> Len(call.stack)]
                /\ ret' = RangeError
           ELSE LET stack == Append([call.stack EXCEPT ![Len(call.stack)].next = top.next + 1],
                                    [node |-> kids[top.next], next |-> 1])
                IN /\ call' = [call EXCEPT !.stack = stack,
                                           !.best = WalkCallback(call.best, kids[top.next],
                                                                 WalkPath(stack))]
                   /\ UNCHANGED ret
  /\ UNCHANGED <<hostVars, arg, cache, now, ticks, fetchCount, clears, pass, vault, plugin>>

\* the top call has no child left and returns; after the outermost one
\* findFrameAtCoordinates builds its result
WalkReturn ==
  /\ call.pc = "walking"
  /\ LET top == call.stack[Len(call.stack)]
     IN /\ top.next > Len(WalkChildren(arg, top.node))
        /\ IF Len(call.stack) > 1
           THEN /\ call' = [call EXCEPT !.stack = SubSeq(call.stack, 1, Len(call.stack) - 1)]
                /\ UNCHANGED ret
           ELSE /\ call' = [pc |-> "done", depth |-> 0]
                /\ ret' = IF call.best.bestMatchNode # Null
                          THEN buildFrameInfoFromPath(call.best.bestMatchNode,
                                                      call.best.bestMatchPath)
                          ELSE Null
  /\ UNCHANGED <<hostVars, arg, cache, now, ticks, fetchCount, clears, pass, vault, plugin>>

WalkNext ==
  \/ WalkStart
  \/ WalkDescend
  \/ WalkReturn

SpecWalk == WalkInit /\ [][WalkNext]_vars

-----------------------------------------------------------------------------
(* The sync pass with a user who presses 'Clear cache' while it is in flight *)

\* the 'Clear cache' button's onClick while a pass awaits a request:
\* runtimeData.frameInfoCache = {} and frameInfoFetcher.clearCache(). The
\* call record of a resolver suspended on its structure request keeps, for
\* the properties only, that the cache was cleared meanwhile.
ClearCacheDuringPass ==
  /\ pass.pc \in {"fetchComments", "awaitResolve"}
  /\ settings.fetchFrameInfo
  /\ IF plugin.frameInfoFetcher THEN clearCache ELSE UNCHANGED cache
  /\ clears' = IF \E k \in FileKeys : cache[k] # Absent THEN clears + 1 ELSE clears
  /\ call' = IF call.pc = "awaitFetch" THEN With(call, [clearedMeanwhile |-> TRUE]) ELSE call
  /\ UNCHANGED <<hostVars, arg, ret, now, ticks, fetchCount, pass, vault, plugin>>

InFlightNext ==
  \/ SyncAllFiles
  \/ FetchCommentsReturn
  \/ RenderComment
  \/ ResolveReturn
  \/ WriteDocument
  \/ ClearCacheDuringPass

SpecInFlight == SyncInit /\ [][InFlightNext]_vars

-----------------------------------------------------------------------------
(* The sync passes of a plugin whose user names the files freely *)

\* the display names the user types in the 'File name' field
FileNames == {"Design", "Icons"}

\* a loaded plugin with a token, a running timer and no file yet
NamesInit ==
  /\ arg = [fn |-> "onload"]
  /\ ret = NotCalled
  /\ cache = [k \in FileKeys |-> Absent]
  /\ now = 0
  /\ ticks = 0
  /\ call = Idle
  /\ fetchCount = 0
  /\ clears = 0
  /\ pass = Idle
  /\ vault = [p \in {} |-> Null]
  /\ plugin = [fetchFrameInfo |-> TRUE, frameInfoFetcher |-> TRUE,
               fetcherToken |-> ConfiguredSettings.figmaToken, lastSync |-> ""]
  /\ settings = [ConfiguredSettings EXCEPT !.figmaFiles = <<>>]
  /\ data = SettingsToSave(settings)
  /\ syncIntervalId = [id |-> 1]
  /\ timers = MapPut([id \in {} |-> 0], 1, ConfiguredSettings.syncInterval)
  /\ running = <<>>

\* the Add button with a name and the next key: the handler tests only that
\* both fields are filled and that the key has ten characters or more
AddNamedFile ==
  /\ PluginLoaded
  /\ Len(settings.figmaFiles) < Len(FigmaFiles)
  /\ \E name \in FileNames :
       LET newFile == [key |-> FigmaFiles[Len(settings.figmaFiles) + 1].key,
                       name |-> name, enabled |-> TRUE]
       IN saveSettings([settings EXCEPT !.figmaFiles = Append(@, newFile)])
  /\ UNCHANGED <<callVars, arg, cache, vault, syncIntervalId, timers, running>>

NamesNext ==
  \/ AddNamedFile
  \/ ManualSync
  \/ TimerFires
  \/ SyncFileSettles

SpecNames == NamesInit /\ [][NamesNext]_vars

-----------------------------------------------------------------------------
(* The sync folder field of the settings tab and FolderMigrationManager *)

\* the folders the user types in the 'Sync folder' field; '' is an emptied field
Folders == {"Figma Comments", "Design Notes", "Archive"}

\* In this part a document's path is the pair <<folder, file name>>, for
\* `${folder}/${fileName}`, and `arg` is the closure of the field the open
\* settings tab shows: oldPath, currentValue and, for the properties only, what
\* the last migrateSyncFolder returned.
DocName(file) == file.name \o "_comments.md"

\* child.path.endsWith('_comments.md'), over the names documents have here
EndsWithComments(name) == name \in {DocName(FigmaFiles[i]) : i \in 1..Len(FigmaFiles)}

\* detectExistingFiles(path)
detectExistingFiles(v, path) == {p \in DOMAIN v : p[1] = path /\ EndsWithComments(p[2])}

\* moveFiles: vault.rename of each detected file in turn; a rename onto an
\* existing path throws, which leaves the files renamed so far where they are
RECURSIVE moveFiles(_, _, _)
moveFiles(v, files, newPath) ==
  IF files = <<>> THEN [vault |-> v, threw |-> FALSE]
  ELSE LET from == Head(files)
           to   == <<newPath, from[2]>>
       IN IF to \in DOMAIN v THEN [vault |-> v, threw |-> TRUE]
          ELSE moveFiles(MapPut(MapRemove(v, from), to, v[from]), Tail(files), newPath)

\* the paths of a set in the order folder.children lists them
RECURSIVE InOrder(_)
InOrder(S) ==
  IF S = {} THEN <<>>
  ELSE LET p == CHOOSE a \in S : \A b \in S : a[2] = DocName(FigmaFiles[1]) \/ b[2] # DocName(FigmaFiles[1])
       IN <<p>> \o InOrder(S \ {p})

\* migrateSyncFolder(oldPath, newPath) when the dialog, if shown, is answered
\* with `confirmed`: the vault it leaves and what it returns
migrateSyncFolder(v, oldPath, newPath, confirmed) ==
  IF oldPath = newPath THEN [vault |-> v, migrated |-> TRUE]
  ELSE IF detectExistingFiles(v, oldPath) = {} THEN [vault |-> v, migrated |-> TRUE]
  ELSE IF ~confirmed THEN [vault |-> v, migrated |-> FALSE]
  ELSE LET moved == moveFiles(v, InOrder(detectExistingFiles(v, oldPath)), newPath)
       IN [vault |-> moved.vault, migrated |-> ~moved.threw]

\* a loaded plugin with both files, its sync folder the default one, the
\* settings tab closed and nothing synced yet
FolderInit ==
  /\ arg = Null
  /\ ret = NotCalled
  /\ cache = [k \in FileKeys |-> Absent]
  /\ now = 0
  /\ ticks = 0
  /\ call = Idle
  /\ fetchCount = 0
  /\ clears = 0
  /\ pass = Idle
  /\ vault = [p \in {} |-> Null]
  /\ plugin = [fetchFrameInfo |-> TRUE, frameInfoFetcher |-> TRUE,
               fetcherToken |-> ConfiguredSettings.figmaToken, lastSync |-> ""]
  /\ settings = With(ConfiguredSettings, [syncFolder |-> SyncFolder])
  /\ data = SettingsToSave(settings)
  /\ syncIntervalId = Null
  /\ timers = [id \in {} |-> 0]
  /\ running = <<>>

\* display(): the settings tab is opened or drawn again; addGeneralSettings
\* reads settings.syncFolder into oldPath and currentValue
Display ==
  /\ arg' = [oldPath |-> settings.syncFolder, currentValue |-> settings.syncFolder,
             migrated |-> NotCalled]
  /\ UNCHANGED <<hostVars, ret, pluginVars>>

\* the field's onChange: only currentValue follows what the user types
TypeSyncFolder ==
  /\ arg # Null
  /\ \E value \in Folders \cup {""} : arg' = [arg EXCEPT !.currentValue = value]
  /\ UNCHANGED <<hostVars, ret, pluginVars>>

\* the field's blur listener, with the answer the user gives if asked
BlurSyncFolder ==
  /\ arg # Null
  /\ IF arg.oldPath # arg.currentValue /\ arg.currentValue # ""
     THEN \E confirmed \in BOOLEAN :
            LET done == migrateSyncFolder(vault, arg.oldPath, arg.currentValue, confirmed)
            IN /\ vault' = done.vault
               /\ IF done.migrated
                  THEN /\ saveSettings([settings EXCEPT !.syncFolder = arg.currentValue])
                       /\ arg' = [arg EXCEPT !.migrated = [returned |-> TRUE]]
                  ELSE /\ arg' = [arg EXCEPT !.currentValue = arg.oldPath,
                                             !.migrated = [returned |-> FALSE]]
                       /\ UNCHANGED <<settings, plugin, data>>
     ELSE /\ arg' = [arg EXCEPT !.currentValue = IF arg.currentValue = "" THEN arg.oldPath ELSE @,
                                !.migrated = NotCalled]
          /\ UNCHANGED <<vault, settings, plugin, data>>
  /\ UNCHANGED <<callVars, cache, syncIntervalId, timers, running>>

\* syncFile of a configured file with a comments request that succeeds:
\* saveCommentsToSingleFile writes the document of the file's key in the sync
\* folder, or creates `${syncFolder}/${file.name}_comments.md`
SyncFileInFolder ==
  /\ \E i \in 1..Len(settings.figmaFiles) :
       LET file    == settings.figmaFiles[i]
           sameKey == {p \in DOMAIN vault :
                         p[1] = settings.syncFolder /\ vault[p].figma_file_key = file.key}
           targets == IF sameKey # {} THEN sameKey
                      ELSE {<<settings.syncFolder, DocName(file)>>}
       IN \E target \in targets :
            vault' = MapPut(vault, target, RenderDocument(file, <<>>, <<>>))
  /\ UNCHANGED <<hostVars, arg, ret, cache, now, ticks, call, fetchCount, clears, pass, plugin>>

FolderNext ==
  \/ Display
  \/ TypeSyncFolder
  \/ BlurSyncFolder
  \/ SyncFileInFolder

SpecFolder == FolderInit /\ [][FolderNext]_vars

-----------------------------------------------------------------------------
(* The sync pass with a user who switches files off and on *)

\* a comment pinned by an offset alone, and one whose node_id is ''
CommentOffsetOnly == Comment("c4", 4, [node_offset |-> Point(5, 5)])
CommentEmptyNodeId == Comment("c5", 5, [node_id |-> "", node_offset |-> Point(5, 5)])

\* what the comments request of either file can settle with
GuardCommentResponses ==
  {[status |-> 200,
    json |-> [comments |-> <<CommentOnFrame, CommentOffsetOnly, CommentEmptyNodeId>>]],
   [status |-> 200, json |-> [comments |-> <<CommentOnCanvas, CommentNoAnchor>>]],
   [status |-> 403]}

\* a loaded plugin with both files, each enabled or not, and frame
\* information on or off
GuardInit ==
  /\ arg = Null
  /\ ret = NotCalled
  /\ cache = [k \in FileKeys |-> Absent]
  /\ now = 0
  /\ ticks = 0
  /\ call = Idle
  /\ fetchCount = 0
  /\ clears = 0
  /\ pass = Idle
  /\ vault = [p \in {} |-> Null]
  /\ \E on \in BOOLEAN : \E e \in [1..Len(FigmaFiles) -> BOOLEAN] :
       /\ settings = [ConfiguredSettings EXCEPT
                        !.fetchFrameInfo = on,
                        !.figmaFiles = [i \in 1..Len(FigmaFiles) |->
                                          [FigmaFiles[i] EXCEPT !.enabled = e[i]]]]
       /\ plugin = [fetchFrameInfo |-> on, frameInfoFetcher |-> on,
                    fetcherToken |-> IF on THEN ConfiguredSettings.figmaToken ELSE Null,
                    lastSync |-> ""]
  /\ data = SettingsToSave(settings)
  /\ syncIntervalId = Null
  /\ timers = [id \in {} |-> 0]
  /\ running = <<>>

\* syncAllFiles(clearCache) begun when no pass is in flight, up to the
\* comments request of the first enabled file; with no enabled file it sets
\* lastSync and returns
SyncAllEnabledFiles ==
  /\ pass.pc \in {"idle", "done"}
  /\ settings.figmaToken # <<>>
  /\ Len(settings.figmaFiles) > 0
  /\ \E clearFlag \in BOOLEAN :
       IF clearFlag /\ settings.fetchFrameInfo /\ plugin.frameInfoFetcher
       THEN /\ clearCache
            /\ clears' = IF \E k \in FileKeys : cache[k] # Absent THEN clears + 1 ELSE clears
       ELSE UNCHANGED <<cache, clears>>
  /\ LET enabledFiles == enabledFilesOf(settings.figmaFiles)
     IN /\ running' = <<[enabledFiles |-> enabledFiles, f |-> 1]>>
        /\ IF enabledFiles = <<>>
           THEN /\ pass' = [pc |-> "done"]
                /\ plugin' = [plugin EXCEPT !.lastSync = ToISOString(now)]
           ELSE /\ pass' = [pc |-> "fetchComments", f |-> 1]
                /\ UNCHANGED plugin
  /\ UNCHANGED <<arg, ret, now, ticks, call, fetchCount, vault,
                 settings, data, syncIntervalId, timers>>

\* the comments request settles, as in FetchCommentsReturn, with the comments
\* of GuardCommentResponses
GuardFetchCommentsReturn ==
  /\ pass.pc = "fetchComments"
  /\ LET file == EnabledFiles[pass.f]
     IN \E response \in GuardCommentResponses :
          IF response.status # 200
          THEN MoveOnFrom(pass.f)
          ELSE /\ \E target \in TargetFiles(vault, file) :
                    pass' = [pc |-> "render", f |-> pass.f, target |-> target,
                             comments |-> SortNewestFirst(response.json.comments),
                             i |-> 1, content |-> <<>>, failed |-> {}]
               /\ UNCHANGED plugin
  /\ UNCHANGED <<hostVars, arg, ret, cache, now, ticks, call, fetchCount, clears, vault>>

\* a file's toggle: figmaFiles[index].enabled = value and saveSettings, at
\* any moment, a pass in flight or not. The pass in flight goes on with the
\* list it filtered when it began.
ToggleFileEnabled ==
  /\ \E index \in 1..Len(settings.figmaFiles) :
       saveSettings([settings EXCEPT !.figmaFiles[index].enabled = ~@])
  /\ UNCHANGED <<callVars, arg, cache, vault, syncIntervalId, timers, running>>

GuardNext ==
  \/ SyncAllEnabledFiles
  \/ GuardFetchCommentsReturn
  \/ RenderComment
  \/ ResolveReturn
  \/ WriteDocument
  \/ ToggleFileEnabled

SpecGuard == GuardInit /\ [][GuardNext]_vars

-----------------------------------------------------------------------------
(* Claims about getFrameInfo and the cache (checked under Spec) *)

\* a step that invokes getFrameInfo, and one that returns from its request
CallStarts == call.pc \in {"idle", "returned"} /\ call' # call /\ call'.pc # "idle"
CallResumes == call.pc = "awaitFetch" /\ call'.pc = "returned"

IsFrameInfo(r) == r # Null /\ r # Threw /\ r # NotCalled
StrategyOf(c) == Strategy(c.args.nodeId, c.args.coordinates)
Age(entry, t) == t - GetTime(entry.lastUpdated)
Succeeded(response) == response # Rejected /\ response.status = 200

\* what resolving the call's anchor against a structure gives
ResolvedIn(c, fileData) ==
  IF StrategyOf(c).by = "id" THEN findFrameInfo(c.args.nodeId, fileData)
  ELSE findFrameAtCoordinates(c.args.coordinates.x, c.args.coordinates.y, fileData)

\* C4: a call whose anchor id is the placeholder '0:1' (or empty) and that
\* carries no coordinates returns absent, issues no structure request and
\* leaves the cache as it was.
C4_PlaceholderAbsent ==
  [][(CallStarts /\ call'.args.nodeId \in {"", "0:1"} /\ call'.args.coordinates = Null)
       => /\ call'.pc = "returned"
          /\ call'.result = Null
          /\ fetchCount' = fetchCount
          /\ cache' = cache
          /\ DetectorStrategy(call'.args.nodeId, call'.args.coordinates).by = "none"]_vars

\* the placeholder resolved to absent while the file has a cache entry
C4_Witness ==
  /\ call.pc = "returned"
  /\ call.args.nodeId = "0:1" /\ call.args.coordinates = Null
  /\ call.result = Null
  /\ cache[call.args.fileKey] # Absent
  /\ fetchCount > 0

\* C5: a call repeating the arguments of the call before it, with no clear
\* and no expiry in between, returns the same value and issues no structure
\* request.
C5_Idempotent ==
  [][(/\ call.pc = "returned"
      /\ CallStarts
      /\ call'.args = call.args
      /\ call.requests = 0 \/ Succeeded(call.response)
      /\ cache[call.args.fileKey] # Absent
      /\ Age(cache[call.args.fileKey], now) < CacheMaxAgeMs)
       => /\ call'.pc = "returned"
          /\ call'.result = call.result
          /\ fetchCount' = fetchCount]_vars

\* C6: while the file's entry is valid and holds a fetched structure, a call
\* for an anchor of that file issues no structure request.
C6_NoFetchWhileStructureCached ==
  [][(/\ CallStarts
      /\ StrategyOf(call').by # "none"
      /\ cache[call'.args.fileKey] # Absent
      /\ Age(cache[call'.args.fileKey], now) < CacheMaxAgeMs
      /\ Has(cache[call'.args.fileKey], "fileStructure"))
       => fetchCount' = fetchCount]_vars

\* C7: a lookup that finds an entry aged 24h or more (exactly 24h included)
\* evicts it and reports absent: nothing is answered from it.
C7_ServedOnlyWhenYoungerThan24h ==
  [][(/\ CallStarts
      /\ StrategyOf(call').by # "none"
      /\ cache[call'.args.fileKey] # Absent
      /\ Age(cache[call'.args.fileKey], now) >= CacheMaxAgeMs)
       => /\ cache'[call'.args.fileKey] = Absent
          /\ call'.pc = "awaitFetch"]_vars

\* the call found an entry older than 24h that held its anchor
FoundExpiredAnchor(c) ==
  /\ StrategyOf(c).by # "none"
  /\ c.before[c.args.fileKey] # Absent
  /\ Age(c.before[c.args.fileKey], c.at) > CacheMaxAgeMs
  /\ StrategyOf(c).key \in DOMAIN c.before[c.args.fileKey].frameMap

\* the lookup treats the expired entry as absent and issues one request
C8_Refetches ==
  (CallStarts /\ FoundExpiredAnchor(call'))
    => /\ cache'[call'.args.fileKey] = Absent
       /\ call'.pc = "awaitFetch"
       /\ fetchCount' = fetchCount + 1

\* C8 as claimed: after the one refetch the file always has a fresh entry
\* that contains the anchor.
C8_AlwaysFreshEntryWithAnchor ==
  [][/\ C8_Refetches
     /\ (CallResumes /\ FoundExpiredAnchor(call))
          => /\ call'.requests = 1 /\ fetchCount' = fetchCount
             /\ cache'[call.args.fileKey] # Absent
             /\ cache'[call.args.fileKey].lastUpdated = ToISOString(now)
             /\ call.key \in DOMAIN cache'[call.args.fileKey].frameMap]_vars

\* C8 (amended): a call that finds its anchor in an entry older than 24h
\* treats the entry as absent and issues exactly one structure request; if
\* the request succeeds the file then has a fresh entry holding the new
\* structure, with the anchor in it exactly when the new structure still
\* resolves it; if the request fails the file has no entry.
C8_ExpiryRefetch ==
  [][/\ C8_Refetches
     /\ (CallResumes /\ FoundExpiredAnchor(call))
          => LET fk == call.args.fileKey
             IN /\ call'.requests = 1 /\ fetchCount' = fetchCount
                /\ IF Succeeded(call'.response)
                   THEN /\ cache'[fk] # Absent
                        /\ cache'[fk].lastUpdated = ToISOString(now)
                        /\ cache'[fk].fileStructure = call'.response.json
                        /\ call'.result = ResolvedIn(call, call'.response.json)
                        /\ IF IsFrameInfo(call'.result)
                           THEN cache'[fk].frameMap = MapPut(EmptyMap, call.key, call'.result)
                           ELSE cache'[fk].frameMap = EmptyMap
                   ELSE /\ cache'[fk] = Absent
                        /\ call'.result = Null]_vars

\* an anchor found in an expired entry has been resolved again into a fresh one
C8_Witness ==
  /\ call.pc = "returned"
  /\ FoundExpiredAnchor(call)
  /\ call.requests = 1
  /\ IsFrameInfo(call.result)
  /\ cache[call.args.fileKey] # Absent
  /\ cache[call.args.fileKey].lastUpdated = ToISOString(now)
  /\ call.key \in DOMAIN cache[call.args.fileKey].frameMap

\* the call repeats one that returned a FrameInfo, and the file's entry is gone
RepeatsAfterClear(c) ==
  /\ StrategyOf(c).by # "none"
  /\ IsFrameInfo(c.prev)
  /\ c.before[c.args.fileKey] = Absent

C9_ClearsAndRefetches ==
  /\ clears' # clears => \A k \in FileKeys : cache'[k] = Absent
  /\ (CallStarts /\ RepeatsAfterClear(call'))
       => call'.pc = "awaitFetch" /\ fetchCount' = fetchCount + 1

\* C9 as claimed: clearCache drops every entry, and the next call for a
\* previously cached anchor issues exactly one structure request and returns
\* a FrameInfo computed from the structure just fetched.
C9_AlwaysNewFrameInfo ==
  [][/\ C9_ClearsAndRefetches
     /\ (CallResumes /\ RepeatsAfterClear(call))
          => /\ call'.requests = 1 /\ fetchCount' = fetchCount
             /\ IsFrameInfo(call'.result)
             /\ call'.result = ResolvedIn(call, call'.response.json)]_vars

\* C9 (amended): clearCache drops every entry, and the next call for a
\* previously cached anchor issues exactly one structure request; if the
\* request succeeds the call returns what resolving the anchor against the
\* structure just fetched gives (absent when that structure no longer
\* resolves it), and if the request fails it returns absent.
C9_ClearThenRefetch ==
  [][/\ C9_ClearsAndRefetches
     /\ (CallResumes /\ RepeatsAfterClear(call))
          => /\ call'.requests = 1 /\ fetchCount' = fetchCount
             /\ call'.result = IF Succeeded(call'.response)
                                THEN ResolvedIn(call, call'.response.json)
                                ELSE Null]_vars

\* after a clear, a previously cached anchor resolved anew, to another frame
C9_Witness ==
  /\ call.pc = "returned"
  /\ clears > 0
  /\ RepeatsAfterClear(call)
  /\ call.requests = 1
  /\ IsFrameInfo(call.result)
  /\ call.result # call.prev

-----------------------------------------------------------------------------
(* Claims about the sync pass (checked under SpecSync) *)

\* the suspended resolver returns from a structure request that failed
ResolveFails ==
  /\ pass.pc = "awaitResolve" /\ call.pc = "awaitFetch"
  /\ call'.pc = "returned" /\ ~Succeeded(call'.response)

\* the comments loop of a file ends
LoopEnds == pass.pc = "render" /\ pass'.pc \notin {"render", "awaitResolve"}

\* the cache a lookup at time t leaves: an expired entry of the file evicted
AfterLookup(c, fileKey, t) ==
  IF c[fileKey] # Absent /\ Age(c[fileKey], t) > CacheMaxAgeMs
  THEN [c EXCEPT ![fileKey] = Absent] ELSE c

\* after a failed structure request the resolver returns absent, the comment
\* gets an entry without Frame and Page lines, the loop stays on the file,
\* and the loop ends only by writing the document with one entry per comment
C10_PassGoesOn ==
  /\ ResolveFails
       => /\ call'.result = Null
          /\ pass'.pc = "render" /\ pass'.f = pass.f /\ pass'.i = pass.i + 1
          /\ pass'.content = Append(pass.content, RenderEntry(pass.comments[pass.i], Null))
  /\ LoopEnds
       => /\ pass.target \in DOMAIN vault'
          /\ vault'[pass.target].figma_file_key = EnabledFiles[pass.f].key
          /\ Len(vault'[pass.target].entries) = Len(pass.comments)
          /\ \A j \in 1..Len(pass.comments) :
               /\ vault'[pass.target].entries[j].comment = pass.comments[j].id
               /\ pass.comments[j].id \in pass.failed
                    => DOMAIN vault'[pass.target].entries[j] \cap {"Frame", "Page"} = {}

\* C10 as claimed: a structure request that fails (rejected, or a status
\* other than 200) makes resolve return absent without raising, leaves the
\* cache exactly as it was before the call, and the pass goes on to write the
\* file's document with that comment lacking its frame annotation.
C10_CacheExactlyAsBefore ==
  [][/\ C10_PassGoesOn
     /\ ResolveFails => cache' = call.before]_vars

\* C10 (amended): a structure request that fails makes resolve return absent
\* without raising; the call changes the cache only by evicting the file's
\* entry if the lookup found it older than 24h; and the pass goes on to write
\* the file's document with that comment lacking its frame annotation.
C10_FetchFailureNonFatal ==
  [][/\ C10_PassGoesOn
     /\ ResolveFails
          => /\ cache' = cache
             /\ cache' = AfterLookup(call.before, call.args.fileKey, call.at)]_vars

\* the resolve of a comment found an expired entry, its request failed, and
\* the document has been written with the comment's entry bare
C10_Witness ==
  /\ call.pc = "returned" /\ call.requests = 1
  /\ ~Succeeded(call.response)
  /\ call.result = Null
  /\ call.before[call.args.fileKey] # Absent
  /\ cache[call.args.fileKey] = Absent
  /\ pass.pc = "fetchComments" /\ pass.f = 2
  /\ FilePath(EnabledFiles[1]) \in DOMAIN vault
  /\ vault[FilePath(EnabledFiles[1])].entries = <<RenderEntry(CommentOnFrame, Null)>>

\* the suspended resolver returns from a request answered 200 with a
\* structure that has no document root
ResolvesMalformed ==
  /\ pass.pc = "awaitResolve" /\ call.pc = "awaitFetch"
  /\ call'.pc = "returned" /\ Succeeded(call'.response)
  /\ ~Has(call'.response.json, "document")

\* C11: when the fetched structure has no document root, resolve returns
\* absent on the by-identifier and on the by-coordinate strategy, no
\* exception leaves the resolver, and the loop stays on the file with a bare
\* entry for the comment, so that the file's document is written in the pass.
C11_MalformedStructureAbsent ==
  [][ResolvesMalformed
       => /\ call'.result = Null
          /\ pass'.pc = "render" /\ pass'.f = pass.f /\ pass'.i = pass.i + 1
          /\ pass'.content = Append(pass.content, RenderEntry(pass.comments[pass.i], Null))]_vars

\* the comments request of the file at pass.f fails (non-200 or rejected)
CommentFetchFails ==
  pass.pc = "fetchComments" /\ pass' # pass /\ pass'.pc # "render"

PassInFlight == pass.pc \notin {"idle", "done"}

\* the steps of a pass: a failed comments request leaves the vault and takes
\* the next file; files go in order; the end comes after the last file
PassSteps ==
  /\ CommentFetchFails
       => /\ vault' = vault
          /\ IF pass.f < Len(EnabledFiles)
             THEN pass' = [pc |-> "fetchComments", f |-> pass.f + 1]
             ELSE pass'.pc = "done"
  /\ (PassInFlight /\ pass'.pc = "done")
       => /\ pass.f = Len(EnabledFiles)
          /\ plugin'.lastSync = ToISOString(now)
  /\ (PassInFlight /\ pass'.pc # "done")
       => pass'.f \in {pass.f, pass.f + 1}
  /\ (~PassInFlight /\ pass' # pass)
       => pass' = [pc |-> "fetchComments", f |-> 1]

\* C12: a failed comments request for file fi leaves the vault as it is and
\* moves the pass to fi+1 (or to its end after the last file); files are
\* taken in order, one at a time; the pass ends only after the last file and
\* records lastSync then; and a pass in flight always reaches its end (as
\* long as structure requests remain within MaxFetches).
C12_PerFileIsolation ==
  /\ [][PassSteps]_vars
  /\ (PassInFlight ~> (pass.pc = "done" \/ fetchCount = MaxFetches))

\* a pass has ended with lastSync recorded in which the first file's comments
\* request failed and the second file's document was written
C12_Witness ==
  /\ pass.pc = "done"
  /\ plugin.lastSync = ToISOString(now)
  /\ fetchCount = 0
  /\ FilePath(EnabledFiles[1]) \notin DOMAIN vault
  /\ FilePath(EnabledFiles[2]) \in DOMAIN vault

-----------------------------------------------------------------------------
(* Claims about the rendered document (checked under SpecRender) *)

DocumentRendered == arg # Null /\ arg.fn = "saveCommentsToSingleFile" /\ ret # NotCalled

CountEntries(entries, box) == Cardinality({i \in 1..Len(entries) : entries[i].checkbox = box})

\* C15: in the rendered document total_comments is the number of comments and
\* equals open_comments + resolved_comments, the checked entries number
\* resolved_comments and the unchecked ones open_comments, whether
\* resolved_at is a timestamp, null or missing.
C15_CountsMatchCheckboxes ==
  DocumentRendered =>
    /\ ret.total_comments = Len(arg.comments)
    /\ ret.total_comments = ret.open_comments + ret.resolved_comments
    /\ CountEntries(ret.entries, "- [x]") = ret.resolved_comments
    /\ CountEntries(ret.entries, "- [ ]") = ret.open_comments

-----------------------------------------------------------------------------
(* Claims about the documents of the sync folder (checked under SpecVault) *)

DocumentsOf(key) == {p \in DOMAIN vault : vault[p].figma_file_key = key}

\* C20: after any sequence of syncs and user renames the sync folder holds at
\* most one document per remote key: a sync overwrites the document that
\* carries the key, whatever its name, and creates no second one.
C20_OneDocumentPerKey == \A key \in FileKeys : Cardinality(DocumentsOf(key)) <= 1

-----------------------------------------------------------------------------
(* Claims about the lifecycle, the settings and the triggers (checked under SpecPlugin) *)

\* C13: at most one sync pass is in flight at any time, for every
\* interleaving of timer ticks and manual triggers: no pass starts before the
\* file loop of the pass before it has completed.
C13_AtMostOnePassInFlight == Len(running) <= 1

BlobWritten == data' # data

\* C17: no blob written by saveSettings contains lastSync or frameInfoCache,
\* after any sequence of settings changes, syncs and cache clears.
C17_RuntimeDataNeverSaved ==
  [][BlobWritten => ~Has(data', "lastSync") /\ ~Has(data', "frameInfoCache")]_vars

\* a blob saved from the settings while a completed sync has left a document
\* and the frame cache holds an entry
C17_Witness ==
  /\ running = <<>> /\ DOMAIN vault # {}
  /\ cache["K1"] # Absent
  /\ data = SettingsToSave(settings)
  /\ Has(data, "encryptedToken") /\ data.syncInterval = 0

\* C18: in every blob written by saveSettings a non-empty token does not
\* appear in plaintext (there is no figmaToken field) and encryptedToken is
\* encrypt(current token).
C18_TokenEncryptedInBlob ==
  [][BlobWritten =>
       /\ settings'.figmaToken # <<>> =>
            ~Has(data', "figmaToken") /\ Has(data', "encryptedToken")
       /\ Has(data', "encryptedToken") =>
            data'.encryptedToken = encrypt(settings'.figmaToken)]_vars

\* C19: once a token is entered and a file added in the settings tab, with
\* syncInterval > 0, a periodic timer is active, without a reload of the
\* plugin or an edit of the interval.
C19_TimerActiveOnceConfigured ==
  (/\ PluginLoaded
   /\ settings.figmaToken # <<>>
   /\ Len(settings.figmaFiles) > 0
   /\ settings.syncInterval > 0)
  => syncIntervalId # Null

\* C22: a structure request that succeeds leaves the file's entry holding
\* the structure just fetched, stamped with the time of the fetch, and with
\* no resolution other than the one the call computed from that structure.
C22_FetchReplacesEntry ==
  [][(CallResumes /\ Succeeded(call'.response)) =>
       LET e == cache'[call.args.fileKey]
       IN /\ e # Absent
          /\ e.fileStructure = call'.response.json
          /\ GetTime(e.lastUpdated) = now
          /\ \A key \in DOMAIN e.frameMap :
                key = call.key /\ e.frameMap[key] = call'.result]_vars

\* C23: resolutions exist only in an entry that holds its structure; a
\* lookup that finds the entry expired removes the whole entry, clearCache
\* removes every entry, and no step drops a structure and keeps its
\* resolutions or drops resolutions and keeps their structure.
C23_ResolutionsGoWithStructure ==
  [][/\ \A k \in FileKeys :
          /\ cache'[k] # Absent => Has(cache'[k], "fileStructure")
          /\ (/\ cache[k] # Absent /\ cache'[k] # Absent
              /\ cache'[k].fileStructure = cache[k].fileStructure) =>
                \A key \in DOMAIN cache[k].frameMap :
                   /\ key \in DOMAIN cache'[k].frameMap
                   /\ cache'[k].frameMap[key] = cache[k].frameMap[key]
     /\ (/\ CallStarts
         /\ StrategyOf(call').by # "none"
         /\ cache[call'.args.fileKey] # Absent
         /\ Expired(cache[call'.args.fileKey], now))
          => cache'[call'.args.fileKey] = Absent
     /\ clears' # clears => \A k \in FileKeys : cache'[k] = Absent]_vars

\* a lookup found an entry holding a resolution expired: the entry is gone
\* while the structure request is in flight
C23_Witness ==
  /\ call.pc = "awaitFetch"
  /\ call.before[call.args.fileKey] # Absent
  /\ DOMAIN call.before[call.args.fileKey].frameMap # {}
  /\ Expired(call.before[call.args.fileKey], call.at)
  /\ cache[call.args.fileKey] = Absent

C32_FetcherSendsCurrentToken ==
  plugin.frameInfoFetcher => plugin.fetcherToken = settings.figmaToken

\* C33: every saveSettings writes a blob from which loadSettings reads back
\* the token the settings held at the save, the empty token included.
C33_TokenRoundTrip ==
  [][data' # data => LoadSettings(data').figmaToken = settings'.figmaToken]_vars

-----------------------------------------------------------------------------
(* Claims about the pure helpers (checked under SpecResolve) *)

\* The node with the given id and its ancestors, document first; <<>> if none.
RECURSIVE PathTo(_, _)
PathTo(node, id) ==
  IF node.id = id THEN <<node>>
  ELSE LET kids == Children(node)
           hits == {k \in 1..Len(kids) : PathTo(kids[k], id) # <<>>}
       IN IF hits = {} THEN <<>>
          ELSE <<node>> \o PathTo(kids[CHOOSE k \in hits : \A j \in hits : k <= j], id)

\* The path's nodes below its page.
BelowPage(path) ==
  LET pages == {k \in 1..Len(path) : path[k].type = "CANVAS"}
  IN IF pages = {} THEN path
     ELSE SubSeq(path, (CHOOSE k \in pages : \A j \in pages : k <= j) + 1, Len(path))

ContainerIndexes(path) == {k \in 1..Len(path) : path[k].type \in ContainerKinds}
LastIndex(S) == CHOOSE k \in S : \A j \in S : j <= k

EndsWith(s, suffix) ==
  Len(s) >= Len(suffix) /\ SubSeq(s, Len(s) - Len(suffix) + 1, Len(s)) = suffix

FoundById ==
  /\ arg.fn = "findFrameInfo"
  /\ ret # NotCalled
  /\ arg.nodeId # "0:1"
  /\ \E k \in DOMAIN PathTo(arg.fileData.document, arg.nodeId) :
        PathTo(arg.fileData.document, arg.nodeId)[k].type = "CANVAS"

\* C1: resolving a real anchor id that the structure contains names the
\* nearest FRAME / COMPONENT / INSTANCE among the match and its ancestors as
\* the container, and "Root" only when there is none on the path.
C1_NearestContainerName ==
  FoundById =>
    LET path == PathTo(arg.fileData.document, arg.nodeId)
        cs   == ContainerIndexes(path)
    IN /\ ret # Null
       /\ ret.frameName = (IF cs = {} THEN "Root" ELSE path[LastIndex(cs)].name)

\* C2: for a real anchor id that the structure contains, fullPath is the
\* names from just below the page down to the matched container joined with
\* " > ", hence ends with the container's name; it is the container name
\* alone only when that list is empty.
C2_FullPathEndsWithContainer ==
  FoundById =>
    LET below == BelowPage(PathTo(arg.fileData.document, arg.nodeId))
        cs    == ContainerIndexes(below)
        upto  == IF cs = {} THEN <<>> ELSE SubSeq(below, 1, LastIndex(cs))
    IN /\ ret # Null
       /\ ret.fullPath = (IF upto = <<>> THEN ret.frameName ELSE Join(Names(upto), " > "))
       /\ cs # {} => EndsWith(ret.fullPath, below[LastIndex(cs)].name)

\* The visits of the traversal that are candidates for the point.
Contains(b, x, y) ==
  b.x <= x /\ x <= b.x + b.width /\ b.y <= y /\ y <= b.y + b.height
CandidateVisits(fileData, x, y) ==
  LET visits == traverseNodes(fileData.document, <<>>)
  IN {k \in 1..Len(visits) :
        /\ visits[k].node.type \in ContainerKinds
        /\ Has(visits[k].node, "absoluteBoundingBox")
        /\ Contains(visits[k].node.absoluteBoundingBox, x, y)}
Area(node) == node.absoluteBoundingBox.width * node.absoluteBoundingBox.height

SearchedByPoint ==
  /\ arg.fn \in {"findFrameAtCoordinates", "detectorFindFrameAtCoordinates"}
  /\ ret # NotCalled

\* C3: coordinate resolution (in main.ts and in the stand-alone detector)
\* returns the candidate of smallest area, the first one in pre-order among
\* several of that area, and nothing when no node is a candidate.
C3_SmallestAreaFirstVisited ==
  SearchedByPoint =>
    LET visits == traverseNodes(arg.fileData.document, <<>>)
        cands  == CandidateVisits(arg.fileData, arg.x, arg.y)
        least  == {k \in cands : \A j \in cands : Area(visits[k].node) <= Area(visits[j].node)}
    IN IF cands = {} THEN ret = Null
       ELSE LET k == CHOOSE i \in least : \A j \in least : i <= j
            IN /\ ret # Null /\ ret # Threw
               /\ ret.nodeId = visits[k].node.id
               /\ ret.frameName = visits[k].node.name

\* An area-100 frame holding an area-50 frame, both containing (5,5): the
\* inner one is returned; and two area-50 siblings tie at (0,0).
C3_Witness ==
  /\ SearchedByPoint
  /\ arg.x = 5 /\ arg.y = 5
  /\ LET visits == traverseNodes(arg.fileData.document, <<>>)
         cands  == CandidateVisits(arg.fileData, arg.x, arg.y)
     IN /\ \E i, j \in cands :
              /\ i < j
              /\ Area(visits[i].node) = 100 /\ Area(visits[j].node) = 50
              /\ ret # Null /\ ret.nodeId = visits[j].node.id

\* a bounding box without width or height, or of zero area
Degenerate(node) ==
  \/ ~Has(node, "absoluteBoundingBox")
  \/ ~({"width", "height"} \subseteq DOMAIN node.absoluteBoundingBox)
  \/ node.absoluteBoundingBox.width * node.absoluteBoundingBox.height = 0

\* C14: coordinate resolution (in main.ts and in the stand-alone detector)
\* never returns a container whose bounding box is degenerate, also when the
\* point is the box's corner and larger containers contain the point.
C14_DegenerateNeverSelected ==
  (SearchedByPoint /\ ret # Null /\ ret # Threw) =>
    LET visits == traverseNodes(arg.fileData.document, <<>>)
    IN \A k \in 1..Len(visits) :
         visits[k].node.id = ret.nodeId => ~Degenerate(visits[k].node)

\* what the other implementation of coordinate resolution returns on the
\* arguments of the call
OtherImplementation ==
  IF arg.fn = "findFrameAtCoordinates"
  THEN DetectorFindFrameAtCoordinates(arg.x, arg.y, arg.fileData)
  ELSE findFrameAtCoordinates(arg.x, arg.y, arg.fileData)

-----------------------------------------------------------------------------
(* Claims about traverseNodes and isPointInBounds (checked under SpecHelpers) *)

TraversedTree == arg.fn = "traverseNodes" /\ Has(ret, "visits")

\* where the traversal visited node i
VisitOf(visits, i) == CHOOSE k \in 1..Len(visits) : visits[k].node.id = NodeId(i)
IndexOfId(n, id) == CHOOSE i \in 0..n : NodeId(i) = id

\* C26: traverseNodes visits every node of the tree exactly once, a node
\* before its children, the children in list order with each subtree
\* finished before the next sibling, and hands the callback the path from
\* the root down to the visited node, both included.
C26_PreOrderWithAncestorPath ==
  TraversedTree =>
    LET n      == arg.n
        parent == arg.parent
        visits == ret.visits
        pos(i) == VisitOf(visits, i)
        size(i) == Cardinality({j \in 0..n : Below(j, i, parent)})
    IN /\ Len(ret.visits) = n + 1
       /\ \A i \in 0..n : \E k \in 1..Len(ret.visits) : ret.visits[k].node.id = NodeId(i)
       /\ ret.visits[1].node = arg.node
       /\ \A i \in 1..n : pos(parent[i]) < pos(i)
       /\ \A i, j \in 1..n : (i < j /\ parent[i] = parent[j]) => pos(i) < pos(j)
       /\ \A i \in 0..n : \A k \in pos(i)..(pos(i) + size(i) - 1) :
             Below(IndexOfId(n, ret.visits[k].node.id), i, parent)
       /\ \A i \in 0..n :
             LET anc == AncestorsOf(i, parent)
             IN /\ Len(ret.visits[pos(i)].path) = Len(anc)
                /\ \A m \in 1..Len(anc) : ret.visits[pos(i)].path[m] = ret.visits[pos(anc[m])].node

\* a page whose first child has a child of its own and a later sibling:
\* the grandchild is visited before the sibling
C26_Witness ==
  /\ TraversedTree
  /\ arg.n = 4 /\ arg.parent = <<0, 1, 2, 1>>
  /\ [k \in 1..Len(ret.visits) |-> ret.visits[k].node.id] = <<"0:0", "0:1", "1:2", "1:3", "1:4">>
  /\ Names(ret.visits[4].path) = <<"Document", "N1", "N2", "N3">>
  /\ Names(ret.visits[5].path) = <<"Document", "N1", "N4">>

TestedPoint == arg.fn = "isPointInBounds" /\ Has(ret, "inside")

\* C28: for a box of non-negative width and height, isPointInBounds is true
\* exactly when box.x <= x <= box.x + width and box.y <= y <= box.y + height,
\* so a point on any of the four edges or corners is inside.
C28_InclusiveOnAllEdges ==
  (TestedPoint /\ arg.bounds.width >= 0 /\ arg.bounds.height >= 0) =>
    LET b == arg.bounds
    IN /\ ret.inside = (/\ b.x <= arg.x /\ arg.x <= b.x + b.width
                 /\ b.y <= arg.y /\ arg.y <= b.y + b.height)
       /\ (arg.x \in {b.x, b.x + b.width} /\ arg.y \in {b.y, b.y + b.height}) => ret.inside

\* the bottom-right corner of a box of positive size is inside
C28_Witness ==
  /\ TestedPoint
  /\ arg.bounds = Box(1, 1, 1, 1)
  /\ arg.x = 2 /\ arg.y = 2
  /\ ret.inside

-----------------------------------------------------------------------------
(* Claims about the manual sync and the setting (checked under SpecToggle) *)

\* C21: after a manual trigger no resolve returns a FrameInfo stored before
\* the trigger. Every pass starts with the resolver idle, so a call that has
\* returned a FrameInfo while no structure request was issued since the last
\* manual trigger was served from what the cache held before that trigger.
C21_NothingStoredBeforeManualSyncIsServed ==
  ~(/\ plugin.fetchesAtManualSync = fetchCount
    /\ call.pc = "returned"
    /\ IsFrameInfo(call.result))

-----------------------------------------------------------------------------
(* Claims about anchors that are not found (checked under SpecGrowing) *)

\* the file's resolution map, empty when the file has no entry
FrameMapOf(c, fileKey) == IF c[fileKey] = Absent THEN EmptyMap ELSE c[fileKey].frameMap

\* the structure holds what the call looks for
HoldsAnchor(c, fileData) ==
  IF StrategyOf(c).by = "id"
  THEN \E k \in DOMAIN PathTo(fileData.document, c.args.nodeId) :
          PathTo(fileData.document, c.args.nodeId)[k].type = "CANVAS"
  ELSE CandidateVisits(fileData, c.args.coordinates.x, c.args.coordinates.y) # {}

\* C24: a resolve that finds no node with the id, or no container at the
\* point, returns absent and leaves the file's resolution map as it was; the
\* next resolve with the same inputs issues a structure request again, and
\* returns and stores a FrameInfo when the structure it gets holds the anchor.
C24_NoNegativeResultCaching ==
  [][/\ (CallResumes /\ call'.result = Null) =>
          FrameMapOf(cache', call.args.fileKey) = FrameMapOf(cache, call.args.fileKey)
     /\ (/\ CallStarts
         /\ call.pc = "returned" /\ call.result = Null
         /\ call'.args = call.args
         /\ StrategyOf(call').by # "none")
          => /\ call'.pc = "awaitFetch"
             /\ fetchCount' = fetchCount + 1
     /\ (/\ CallResumes
         /\ call.prev = Null
         /\ Succeeded(call'.response)
         /\ HoldsAnchor(call, call'.response.json))
          => /\ IsFrameInfo(call'.result)
             /\ FrameMapOf(cache', call.args.fileKey)[call.key] = call'.result]_vars

\* no container at (22,22) at first, and the same call finds the added frame
\* after the refetch
C24_Witness ==
  /\ call.pc = "returned"
  /\ call.args.coordinates = Point(22, 22)
  /\ call.prev = Null
  /\ IsFrameInfo(call.result)
  /\ call.result.frameName = "Footer"
  /\ call.requests = 1

-----------------------------------------------------------------------------
(* Claims about the detector's decision policy (checked under SpecDetector) *)

\* C25: a call whose anchor id is empty or '0:1' and whose coordinates have
\* both x and y, zero included, resolves by coordinates, and a call with a
\* real id resolves by id only: it either issues the structure request or
\* returns what that search gives on the cached structure.
C25_SearchesWhenCoordinatesPresent ==
  [][CallStarts =>
       LET a  == call'.args
           fileStructure == DetectorCached(cache, a.fileKey, now)
           expected ==
             IF a.nodeId \notin {"", "0:1"}
             THEN DetectorGetFrameInfoByNodeId(a.nodeId, fileStructure)
             ELSE DetectorFindFrameAtCoordinates(a.coordinates.x, a.coordinates.y, fileStructure)
       IN (\/ a.nodeId \notin {"", "0:1"}
           \/ (a.coordinates # Null /\ {"x", "y"} \subseteq DOMAIN a.coordinates))
            => IF fileStructure = Null THEN call'.pc = "awaitFetch"
               ELSE call'.pc = "returned" /\ call'.result = expected]_vars

-----------------------------------------------------------------------------
(* Claims about the walker on a cyclic structure (checked under SpecWalk) *)

-----------------------------------------------------------------------------
(* Claims about a clear during a pass (checked under SpecInFlight) *)

\* C31: when the cache was cleared while a resolver was suspended on its
\* structure request, then once that resolver has returned the cache holds no
\* structure and no FrameInfo: whatever it would hold came from the request
\* issued before the clear.
C31_NothingFetchedBeforeClearIsCached ==
  (call.pc = "returned" /\ Has(call, "clearedMeanwhile"))
    => \A k \in FileKeys : cache[k] = Absent

-----------------------------------------------------------------------------
(* Claims about the documents of files named freely (checked under SpecNames) *)

\* C34: no step of a pass overwrites or removes a document whose
\* figma_file_key is the key of another file: every document stays at its path
\* with its key, whatever names the configured files have.
C34_NeverOverwritesAnotherKeysDocument ==
  [][\A p \in DOMAIN vault :
       p \in DOMAIN vault' /\ vault'[p].figma_file_key = vault[p].figma_file_key]_vars

-----------------------------------------------------------------------------
(* Claims about the sync folder's migration (checked under SpecFolder) *)

\* C35: settings.syncFolder changes only in a step in which migrateSyncFolder
\* returned true, and after such a step every '*_comments.md' document that
\* was in the previous sync folder is in the new one, also when the field is
\* edited again in the same settings tab.
C35_AcceptedChangeMovesEveryDocument ==
  [][settings'.syncFolder # settings.syncFolder =>
       /\ arg'.migrated = [returned |-> TRUE]
       /\ \A p \in detectExistingFiles(vault, settings.syncFolder) :
            /\ <<settings'.syncFolder, p[2]>> \in DOMAIN vault'
            /\ vault'[<<settings'.syncFolder, p[2]>>] = vault[p]]_vars

-----------------------------------------------------------------------------
(* Claims about the orchestrator's guards (checked under SpecGuard) *)

\* the keys of the files switched off in the settings
DisabledKeys == {settings.figmaFiles[i].key :
                   i \in {j \in 1..Len(settings.figmaFiles) : settings.figmaFiles[j].enabled = FALSE}}

\* C36: a step of a pass invokes the resolver only with frame information on,
\* a fetcher in place and a comment whose anchor has a non-empty node_id; no
\* entry of a comment pinned by an offset alone has Frame and Page lines; and
\* no step requests the comments of a file that is switched off or writes its
\* document.
C36_ResolverAndFilesGuarded ==
  [][/\ (pass.pc = "render" /\ call' # call) =>
          /\ plugin.fetchFrameInfo /\ plugin.frameInfoFetcher
          /\ Has(pass.comments[pass.i], "client_meta")
          /\ Has(pass.comments[pass.i].client_meta, "node_id")
          /\ pass.comments[pass.i].client_meta.node_id # ""
          /\ call'.args.nodeId = pass.comments[pass.i].client_meta.node_id
     /\ \A p \in DOMAIN vault' : \A k \in 1..Len(vault'[p].entries) :
          vault'[p].entries[k].comment = CommentOffsetOnly.id
            => ~Has(vault'[p].entries[k], "Frame") /\ ~Has(vault'[p].entries[k], "Page")
     /\ (pass'.pc = "fetchComments" /\ pass' # pass) =>
          running'[1].enabledFiles[pass'.f].key \notin DisabledKeys
     /\ \A p \in DOMAIN vault' :
          (p \notin DOMAIN vault \/ vault'[p] # vault[p])
            => vault'[p].figma_file_key \notin DisabledKeys]_vars

=============================================================================
